---- MODULE Spec2Model ----
(***************************************************************************)
(* Baropodometry web: the POST /api/analyze two-stage pipeline, the        *)
(* configuration resolver and the POST /api/bootstrap-key endpoint.        *)
(*                                                                         *)
(* Strings are sequences of lexical tokens.  " " is a run of white space,  *)
(* "diag" a word of free text, "patient" / "tests" / "comparisons" /       *)
(* "extra" are the quoted JSON string literals of those names, "null",     *)
(* "0", "1" and the other number literals the JSON scalars, and the two     *)
(* fence markers are one token each.  The other quoted literals are the     *)
(* key names of the extraction payload.                                     *)
(***************************************************************************)
EXTENDS Integers, Sequences, FiniteSets, TLC

\* ------------------------------------------------------------------ bounds
\* pages of the largest uploaded PDF
MaxPages == 2

\* ------------------------------------------------------- string primitives
WS == " "
fenceStart == "<<<JSON_START>>>"
fenceEnd == "<<<JSON_END>>>"
StrTokens ==
  {"patient", "tests", "comparisons", "extra",
   "A", "B", "C", "page1", "loads", "left_load_pct", "right_load_pct",
   "page4_fft", "ml_x", "ml", "ap_y", "ap", "global_metrics", "area_mm2", "value",
   "romberg_b_over_a", "cotton_c_over_b", "ellipse_ap_deviation_deg",
   "ratio", "pct_change", "delta_deg", "sign_flip", "+50%"}

\* the number literals other than 0 and 1
NumTokens == {"40", "49", "53", "2", "3", "1.5", "1.33"}

Min(a, b) == IF a <= b THEN a ELSE b
Max(a, b) == IF a >= b THEN a ELSE b

\* String.prototype.substring(a, b), 0-based, end exclusive
Substring(s, a, b) ==
  LET lo == Min(Max(Min(a, b), 0), Len(s))
      hi == Min(Max(Max(a, b), 0), Len(s))
  IN  IF hi <= lo THEN << >> ELSE SubSeq(s, lo + 1, hi)

\* String.prototype.indexOf(tok): 0-based index of the first occurrence, -1 if none
IndexOf(s, tok) ==
  IF \E i \in 1..Len(s) : s[i] = tok
  THEN (CHOOSE i \in 1..Len(s) : s[i] = tok /\ \A j \in 1..(i - 1) : s[j] # tok) - 1
  ELSE -1

\* String.prototype.lastIndexOf(tok)
LastIndexOf(s, tok) ==
  IF \E i \in 1..Len(s) : s[i] = tok
  THEN (CHOOSE i \in 1..Len(s) : s[i] = tok /\ \A j \in (i + 1)..Len(s) : s[j] # tok) - 1
  ELSE -1

\* String.prototype.trim()
Trim(s) ==
  IF \A i \in 1..Len(s) : s[i] = WS THEN << >>
  ELSE LET a == CHOOSE i \in 1..Len(s) : s[i] # WS /\ \A j \in 1..(i - 1) : s[j] = WS
           b == CHOOSE i \in 1..Len(s) : s[i] # WS /\ \A j \in (i + 1)..Len(s) : s[j] = WS
       IN  SubSeq(s, a, b)

\* ------------------------------------------------------------- JSON values
\* A JavaScript value produced by JSON.parse: t is its type, s the literal of a
\* string, k / v the keys and values of an object (in insertion order) or the
\* elements of an array (k empty).
JNull == [t |-> "null", s |-> "", k |-> << >>, v |-> << >>]
JZero == [t |-> "zero", s |-> "", k |-> << >>, v |-> << >>]
JOne == [t |-> "one", s |-> "", k |-> << >>, v |-> << >>]
JStr(tok) == [t |-> "str", s |-> tok, k |-> << >>, v |-> << >>]
JNum(tok) == [t |-> "num", s |-> tok, k |-> << >>, v |-> << >>]
\* undefined: what reading an absent property gives
JUndef == [t |-> "undef", s |-> "", k |-> << >>, v |-> << >>]
JArr(vs) == [t |-> "arr", s |-> "", k |-> << >>, v |-> vs]
JObj(ks, vs) == [t |-> "obj", s |-> "", k |-> ks, v |-> vs]
EmptyObj == JObj(<< >>, << >>)

\* JavaScript truthiness of a value (undefined, null and 0 are falsy; objects,
\* arrays, the other numbers and the non-empty string literals are truthy)
Truthy(x) == x.t \notin {"undef", "null", "zero"}

\* typeof x === "number"
IsNumber(x) == x.t \in {"zero", "one", "num"}

\* obj[key] = val: a repeated key keeps its first position and takes the last value
ObjPut(ks, vs, key, val) ==
  IF \E i \in 1..Len(ks) : ks[i] = key
  THEN [ks |-> ks, vs |-> [i \in 1..Len(vs) |-> IF ks[i] = key THEN val ELSE vs[i]]]
  ELSE [ks |-> Append(ks, key), vs |-> Append(vs, val)]

\* property read parsed.key: undefined (absent) is reported by has = FALSE
HasKey(x, key) == x.t = "obj" /\ \E i \in 1..Len(x.k) : x.k[i] = key
GetKey(x, key) == x.v[CHOOSE i \in 1..Len(x.k) : x.k[i] = key]
\* x?.key
Prop(x, key) == IF HasKey(x, key) THEN GetKey(x, key) ELSE JUndef

\* ------------------------------------------------------------- JSON.parse
SkipWs(s, i) ==
  IF \E j \in i..Len(s) : s[j] # WS
  THEN CHOOSE j \in i..Len(s) : s[j] # WS /\ \A m \in i..(j - 1) : s[m] = WS
  ELSE Len(s) + 1

ParseFail == [ok |-> FALSE, val |-> JNull, pos |-> 0]
ParseOk(val, pos) == [ok |-> TRUE, val |-> val, pos |-> pos]

RECURSIVE ParseValue(_, _)
RECURSIVE ParseMembers(_, _, _, _)
RECURSIVE ParseElements(_, _, _)

\* value at or after position i (leading white space skipped)
ParseValue(s, i) ==
  LET j == SkipWs(s, i) IN
  IF j > Len(s) THEN ParseFail
  ELSE IF s[j] = "null" THEN ParseOk(JNull, j + 1)
  ELSE IF s[j] = "0" THEN ParseOk(JZero, j + 1)
  ELSE IF s[j] = "1" THEN ParseOk(JOne, j + 1)
  ELSE IF s[j] \in NumTokens THEN ParseOk(JNum(s[j]), j + 1)
  ELSE IF s[j] \in StrTokens THEN ParseOk(JStr(s[j]), j + 1)
  ELSE IF s[j] = "{" THEN
    LET m == SkipWs(s, j + 1) IN
    IF m <= Len(s) /\ s[m] = "}" THEN ParseOk(EmptyObj, m + 1)
    ELSE ParseMembers(s, j + 1, << >>, << >>)
  ELSE IF s[j] = "[" THEN
    LET m == SkipWs(s, j + 1) IN
    IF m <= Len(s) /\ s[m] = "]" THEN ParseOk(JArr(<< >>), m + 1)
    ELSE ParseElements(s, j + 1, << >>)
  ELSE ParseFail

\* members of an object from position i up to and including the closing brace
ParseMembers(s, i, ks, vs) ==
  LET j == SkipWs(s, i) IN
  IF j > Len(s) \/ s[j] \notin StrTokens THEN ParseFail
  ELSE LET c == SkipWs(s, j + 1) IN
    IF c > Len(s) \/ s[c] # ":" THEN ParseFail
    ELSE LET r == ParseValue(s, c + 1) IN
      IF ~r.ok THEN ParseFail
      ELSE LET e == SkipWs(s, r.pos)
               put == ObjPut(ks, vs, s[j], r.val)
           IN  IF e > Len(s) THEN ParseFail
               ELSE IF s[e] = "}" THEN ParseOk(JObj(put.ks, put.vs), e + 1)
               ELSE IF s[e] = "," THEN ParseMembers(s, e + 1, put.ks, put.vs)
               ELSE ParseFail

\* elements of an array from position i up to and including the closing bracket
ParseElements(s, i, vs) ==
  LET r == ParseValue(s, i) IN
  IF ~r.ok THEN ParseFail
  ELSE LET e == SkipWs(s, r.pos) IN
    IF e > Len(s) THEN ParseFail
    ELSE IF s[e] = "]" THEN ParseOk(JArr(Append(vs, r.val)), e + 1)
    ELSE IF s[e] = "," THEN ParseElements(s, e + 1, Append(vs, r.val))
    ELSE ParseFail

\* JSON.parse(text): threw = TRUE stands for the SyntaxError
JSONparse(s) ==
  LET r == ParseValue(s, 1) IN
  IF r.ok /\ SkipWs(s, r.pos) > Len(s)
  THEN [threw |-> FALSE, val |-> r.val]
  ELSE [threw |-> TRUE, val |-> JNull]

\* ---------------------------------------------- JSON.stringify(x, null, 2)
RECURSIVE Stringify(_)
RECURSIVE StringifyMembers(_, _, _)
RECURSIVE StringifyElements(_, _)

Stringify(x) ==
  IF x.t = "null" THEN <<"null">>
  ELSE IF x.t = "zero" THEN <<"0">>
  ELSE IF x.t = "one" THEN <<"1">>
  ELSE IF x.t \in {"str", "num"} THEN <<x.s>>
  ELSE IF x.t = "arr" THEN
    IF Len(x.v) = 0 THEN <<"[", "]">>
    ELSE <<"[">> \o StringifyElements(x.v, 1) \o <<WS, "]">>
  ELSE IF Len(x.k) = 0 THEN <<"{", "}">>
  ELSE <<"{">> \o StringifyMembers(x.k, x.v, 1) \o <<WS, "}">>

StringifyMembers(ks, vs, i) ==
  IF i > Len(ks) THEN << >>
  ELSE <<WS, ks[i], ":", WS>> \o Stringify(vs[i])
       \o (IF i < Len(ks) THEN <<",">> ELSE << >>)
       \o StringifyMembers(ks, vs, i + 1)

StringifyElements(vs, i) ==
  IF i > Len(vs) THEN << >>
  ELSE <<WS>> \o Stringify(vs[i])
       \o (IF i < Len(vs) THEN <<",">> ELSE << >>)
       \o StringifyElements(vs, i + 1)

\* ------------------------------------------------- configuration sources
\* A configuration string value: t = "undef" (absent), "str" (a string, s its
\* characters) or "num" (a JSON number, i.e. a value that is not a string).
Undef == [t |-> "undef", s |-> << >>]
Str(s) == [t |-> "str", s |-> s]
NumV == [t |-> "num", s |-> << >>]

\* JavaScript truthiness of such a value
IsTruthy(x) == (x.t = "str" /\ x.s # << >>) \/ x.t = "num"

\* x?.trim() of an environment variable (a string or undefined)
TrimOpt(x) == IF x.t = "str" THEN Str(Trim(x.s)) ELSE x

\* a || b
OrElse(a, b) == IF IsTruthy(a) THEN a ELSE b

K1 == <<"s", "k", "-", "a", "1">>
K2 == <<"s", "k", "-", "b", "2">>
EnvKey == <<"s", "k", "-", "e", "0">>
Blank == <<WS>>
Padded(s) == <<WS>> \o s \o <<WS>>

DefaultVectorStoreId == <<"vs_688ced7042548191997d956b277fd0e0">>
DefaultModel == <<"gpt-4o">>
DefaultLanguage == <<"English">>
LocalDefaultModel == <<"gpt-5">>

\* ../Config/settings.json: kind is "absent", "unreadable" (readFileSync
\* throws), "malformed" (JSON.parse throws), "null" (parses to a non-object) or
\* "object"; the other fields are LLMConfig.ApiKey, LLMConfig.Model, Language,
\* VectorStoreId and VerboseOpenAI ("undef", "false" or "true") of the object.
FileOf(kind, key, model, language, vs, verbose) ==
  [kind |-> kind, ApiKey |-> key, Model |-> model, Language |-> language,
   VectorStoreId |-> vs, VerboseOpenAI |-> verbose]
NoFile == FileOf("absent", Undef, Undef, Undef, Undef, "undef")
EmptyObject == FileOf("object", Undef, Undef, Undef, Undef, "undef")

VARIABLES env, cfgFile, bootReq, bootResp, cfgResp

\* one POST /api/analyze request: pc is the await the handler is suspended at
VARIABLES pc, form, settings, conv, images, extractionInput, calls,
          extractionResp, extractionText, extractionDiagnostics, extractionJsonText,
          augmentationInput, augmentedText, thrown, response

\* one call of normalizeExtraction (ex as passed, normalized as returned, calls
\* made so far in normalizeCalls) and one call of pdfToImages (the document,
\* the requested pages, the list returned)
VARIABLES ex, normalized, normalizeCalls, pdfDoc, pagesToExtract, pdfImages

\* one call of withRetry(fn, label, maxAttempts): the loop counter, the last
\* error caught, the backoff being waited, the calls of fn made so far, where
\* the call stands and what it returned or threw
VARIABLES attempt, maxAttempts, lastErr, delay, fnCalls, retryPc, retryOut

\* one request of the legacy polling route: the await the stream's start() is
\* suspended at, the files held by the provider, the files a delete was issued
\* for, the polls made, the last run status, the last event and the stream
VARIABLES legacyPc, uploaded, deleted, attempts, runStatus, lastEvent, streamClosed

\* concurrent POST /api/bootstrap-key requests of one server process
VARIABLES bootPc, bootBodyOf, bootAnswer

\* concurrent POST /api/analyze requests of one server process: the global
\* console.log, and per request the function captured in originalConsoleLog,
\* the lines in debugLogs, the await it is suspended at, and its answer
VARIABLES consoleLog, originalConsoleLog, debugLogs, logPc, logAnswer

\* the client page: the React state, and per run of onSubmit its interval
\* timer and the await it is suspended at
\* (errorState and resultState are the states `error` and `result`)
VARIABLES files, busy, errorState, resultState, progressInterval, submitPc, runsStarted

\* ---------------------------------------- src/lib/server-config.ts resolver
\* the try block of getDefaultApiKey: threw = TRUE if readFileSync or
\* JSON.parse throws, otherwise val is the key found (or undefined)
readApiKeyFromFile ==
  IF cfgFile.kind = "absent" THEN [threw |-> FALSE, val |-> Undef]
  ELSE IF cfgFile.kind \in {"unreadable", "malformed"} THEN [threw |-> TRUE, val |-> Undef]
  ELSE IF cfgFile.kind = "null" THEN [threw |-> FALSE, val |-> Undef]
  ELSE IF cfgFile.ApiKey.t = "str" /\ Len(Trim(cfgFile.ApiKey.s)) > 0
       THEN [threw |-> FALSE, val |-> Str(Trim(cfgFile.ApiKey.s))]
       ELSE [threw |-> FALSE, val |-> Undef]

\* the resolver without its try / catch: a read or parse failure propagates
getDefaultApiKeyNoCatch ==
  LET envKey == TrimOpt(env.OPENAI_API_KEY)
  IN  IF IsTruthy(envKey) THEN [threw |-> FALSE, val |-> envKey]
      ELSE readApiKeyFromFile

\* the resolver consulting the config file before the environment
getDefaultApiKeyFileFirst ==
  LET envKey == TrimOpt(env.OPENAI_API_KEY)
      r == readApiKeyFromFile
  IN  IF ~r.threw /\ IsTruthy(r.val) THEN r
      ELSE [threw |-> FALSE, val |-> IF IsTruthy(envKey) THEN envKey ELSE Undef]

getDefaultApiKey ==
  LET envKey == TrimOpt(env.OPENAI_API_KEY)
      r == readApiKeyFromFile
  IN  IF IsTruthy(envKey) THEN [threw |-> FALSE, val |-> envKey]
      ELSE IF r.threw THEN [threw |-> FALSE, val |-> Undef]
      ELSE r

\* a resolver that also reports the VerboseOpenAI flag of the config file
getDefaultSettingsVerbose ==
  LET k == getDefaultApiKey IN
  [threw |-> k.threw,
   apiKey |-> k.val,
   vectorStoreId |-> OrElse(env.VECTOR_STORE_ID, Str(DefaultVectorStoreId)),
   model |-> Str(DefaultModel),
   language |-> Str(DefaultLanguage),
   verboseOpenAI |-> (cfgFile.kind = "object" /\ cfgFile.VerboseOpenAI = "true")]

\* getDefaultSettings as shipped under src/lib (the module the routes import)
getDefaultSettings ==
  LET k == getDefaultApiKey IN
  [threw |-> k.threw,
   apiKey |-> k.val,
   vectorStoreId |-> OrElse(env.VECTOR_STORE_ID, Str(DefaultVectorStoreId)),
   model |-> Str(DefaultModel),
   language |-> Str(DefaultLanguage),
   verboseOpenAI |-> FALSE]

\* the variant of the resolver that reads the local config file for the
\* model, the language and the vector store id
readLocalConfig ==
  IF cfgFile.kind = "object"
  THEN [model |-> cfgFile.Model, language |-> cfgFile.Language,
        vectorStoreId |-> cfgFile.VectorStoreId]
  ELSE [model |-> Undef, language |-> Undef, vectorStoreId |-> Undef]

getDefaultSettingsLocal ==
  LET local == readLocalConfig
      k == getDefaultApiKey
  IN  [threw |-> k.threw,
       apiKey |-> k.val,
       model |-> OrElse(TrimOpt(env.MODEL), OrElse(local.model, Str(LocalDefaultModel))),
       language |-> OrElse(TrimOpt(env.LANGUAGE), OrElse(local.language, Str(DefaultLanguage))),
       vectorStoreId |-> OrElse(env.VECTOR_STORE_ID,
                                OrElse(local.vectorStoreId, Str(DefaultVectorStoreId))),
       verboseOpenAI |-> FALSE]


cfgVars == <<env, cfgFile, bootReq, bootResp, cfgResp>>
reqVars == <<pc, form, settings, conv, images, extractionInput, calls,
             extractionResp, extractionText, extractionDiagnostics, extractionJsonText,
             augmentationInput, augmentedText, thrown, response>>
fnVars == <<ex, normalized, normalizeCalls, pdfDoc, pagesToExtract, pdfImages>>
retryVars == <<attempt, maxAttempts, lastErr, delay, fnCalls, retryPc, retryOut>>
legacyVars == <<legacyPc, uploaded, deleted, attempts, runStatus, lastEvent, streamClosed>>
concVars == <<bootPc, bootBodyOf, bootAnswer>>
logVars == <<consoleLog, originalConsoleLog, debugLogs, logPc, logAnswer>>
clientVars == <<files, busy, errorState, resultState, progressInterval, submitPc, runsStarted>>
auxVars == <<retryVars, legacyVars, logVars, clientVars>>
vars == <<cfgVars, reqVars, fnVars, auxVars, concVars>>

\* ------------------------------------------ POST /api/bootstrap-key (route)
\* An error message is a sequence of text fragments.
MsgMissingApiKey == <<"Missing apiKey">>
MsgBodyNotJson == <<"Unexpected token in JSON">>
MsgMkdirFailed == <<"EACCES: permission denied, mkdir">>
MsgWriteFailed == <<"EACCES: permission denied, open">>

\* apiKey.slice(-4)
Last4(s) == IF Len(s) <= 4 THEN s ELSE SubSeq(s, Len(s) - 3, Len(s))

\* Boolean(body?.flag) of a flag that is "undef", "false" or "true"
ToBoolean(flag) == flag = "true"

\* (body?.field || "").trim()
FieldOf(x) == IF IsTruthy(x) /\ x.t = "str" THEN Trim(x.s) ELSE << >>

BootBody(parsed, apiKey, model, language, vs, rotate, verbose) ==
  [parsed |-> parsed, apiKey |-> apiKey, model |-> model, language |-> language,
   vectorStoreId |-> vs, rotate |-> rotate, verboseOpenAI |-> verbose]
NoBody == BootBody(FALSE, Undef, Undef, Undef, Undef, "undef", "undef")

BootResponse(status, ok, error, saved, already, last4) ==
  [status |-> status, ok |-> ok, error |-> error, saved |-> saved,
   alreadyConfigured |-> already, last4 |-> last4]
NoBootResponse == BootResponse(0, FALSE, << >>, FALSE, FALSE, << >>)

BoolName(b) == IF b THEN "true" ELSE "false"

\* lines 43-50: the merge into the stored file; the whole block sits in a
\* try / catch {} so every failure leaves the file as it was
MergeInto(prev, model, language, vs, verbose, fs) ==
  IF prev.kind # "object" \/ fs = "write_fails" THEN prev
  ELSE [prev EXCEPT
          !.Model = IF model # << >> THEN Str(model) ELSE @,
          !.Language = IF language # << >> THEN Str(language) ELSE @,
          !.VectorStoreId = IF vs # << >> THEN Str(vs) ELSE @,
          !.VerboseOpenAI = BoolName(verbose)]

\* lines 58-66: the payload of a first write or of a rotation
PayloadOf(apiKey, model, language, vs, verbose) ==
  FileOf("object", Str(apiKey),
         IF model # << >> THEN Str(model) ELSE Undef,
         IF language # << >> THEN Str(language) ELSE Undef,
         IF vs # << >> THEN Str(vs) ELSE Undef,
         BoolName(verbose))

\* the guard with the rotate flag inverted
AlreadyBootstrappedInverted(rotate) == cfgFile.kind # "absent" /\ rotate

\* lines 39: the guard of the already-configured path
AlreadyBootstrapped(rotate) == cfgFile.kind # "absent" /\ ~rotate

\* The handler.  fs is what the file system does during this request: "ok",
\* "mkdir_fails" (mkdirSync throws) or "write_fails" (writeFileSync throws).
BootstrapKey(body, fs) ==
  LET apiKey == FieldOf(body.apiKey)
      model == FieldOf(body.model)
      language == FieldOf(body.language)
      vs == FieldOf(body.vectorStoreId)
      rotate == ToBoolean(body.rotate)
      verbose == ToBoolean(body.verboseOpenAI)
  IN  /\ bootReq' = body
      /\ cfgResp' = << >>
      /\ UNCHANGED <<env, reqVars, fnVars, auxVars>>
      /\ IF ~body.parsed
         THEN /\ bootResp' = BootResponse(500, FALSE, MsgBodyNotJson, FALSE, FALSE, << >>)
              /\ UNCHANGED cfgFile
         ELSE IF apiKey = << >>
         THEN /\ bootResp' = BootResponse(400, FALSE, MsgMissingApiKey, FALSE, FALSE, << >>)
              /\ UNCHANGED cfgFile
         ELSE IF fs = "mkdir_fails"
         THEN /\ bootResp' = BootResponse(500, FALSE, MsgMkdirFailed, FALSE, FALSE, << >>)
              /\ UNCHANGED cfgFile
         ELSE IF AlreadyBootstrapped(rotate)
         THEN /\ cfgFile' = IF verbose \/ model # << >> \/ language # << >> \/ vs # << >>
                            THEN MergeInto(cfgFile, model, language, vs, verbose, fs)
                            ELSE cfgFile
              /\ bootResp' = BootResponse(200, TRUE, << >>, FALSE, TRUE, << >>)
         ELSE IF fs = "write_fails"
         THEN /\ bootResp' = BootResponse(500, FALSE, MsgWriteFailed, FALSE, FALSE, << >>)
              /\ UNCHANGED cfgFile
         ELSE /\ cfgFile' = PayloadOf(apiKey, model, language, vs, verbose)
              /\ bootResp' = BootResponse(200, TRUE, << >>, TRUE, FALSE, Last4(apiKey))

\* ------------------------------------------------- GET /api/config (route)
\* The response {model, language, vectorStoreId, hasApiKey} as a sequence.
ConfigResponse(st) ==
  <<[model |-> st.model, language |-> st.language,
     vectorStoreId |-> st.vectorStoreId, hasApiKey |-> IsTruthy(st.apiKey)]>>

GetConfig ==
  /\ cfgResp' = ConfigResponse(getDefaultSettings)
  /\ bootReq' = NoBody
  /\ bootResp' = NoBootResponse
  /\ UNCHANGED <<env, cfgFile, reqVars, fnVars, auxVars, concVars>>

\* ------------------------------------------------------------ input sets
ModelName == <<"gpt-4o-mini">>
LanguageName == <<"Hungarian">>
StoreName == <<"vs_clinic">>
EnvModelName == <<"gpt-4-turbo">>
EnvStoreName == <<"vs_env">>

EnvOf(key, model, language, vs) ==
  [OPENAI_API_KEY |-> key, MODEL |-> model, LANGUAGE |-> language, VECTOR_STORE_ID |-> vs]
EnvUnset == EnvOf(Undef, Undef, Undef, Undef)

EnvKeys == {Undef, Str(Blank), Str(Padded(EnvKey))}
Envs ==
  {EnvOf(k, m, l, v) : k \in EnvKeys, m \in {Undef, Str(Blank), Str(Padded(EnvModelName))},
                       l \in {Undef, Str(LanguageName)}, v \in {Undef, Str(<< >>), Str(EnvStoreName)}}

\* the states the config file can be in before the first bootstrap request
InitFiles ==
  {NoFile, EmptyObject,
   FileOf("unreadable", Undef, Undef, Undef, Undef, "undef"),
   FileOf("malformed", Undef, Undef, Undef, Undef, "undef"),
   FileOf("null", Undef, Undef, Undef, Undef, "undef"),
   FileOf("object", NumV, Undef, Undef, Undef, "undef"),
   FileOf("object", Str(Blank), Undef, Undef, Undef, "undef"),
   FileOf("object", Str(Padded(K1)), Str(ModelName), Undef, Str(StoreName), "true")}

\* bodies the handler rejects: not JSON, no apiKey, a blank apiKey
InvalidBodies ==
  {NoBody,
   BootBody(TRUE, Undef, Str(ModelName), Undef, Undef, "undef", "undef"),
   BootBody(TRUE, Str(Blank), Undef, Undef, Undef, "true", "undef")}

BootBodies ==
  InvalidBodies \cup
  {BootBody(TRUE, k, m, l, v, r, b) :
     k \in {Str(K1), Str(Padded(K2))},
     m \in {Undef, Str(ModelName)}, l \in {Undef, Str(LanguageName)},
     v \in {Undef, Str(StoreName)}, r \in {"undef", "false", "true"},
     b \in {"undef", "true"}}

FsOutcomes == {"ok", "mkdir_fails", "write_fails"}

\* ------------------------------------------------ POST /api/analyze (route)
Stages == {"A", "B", "C"}
PagesList == <<1, 2, 3, 4, 5, 8>>
PagesToExtract == {PagesList[i] : i \in 1..Len(PagesList)}
\* Array.prototype.includes
Includes(list, x) == \E i \in 1..Len(list) : list[i] = x

\* a thrown value: isError is `error instanceof Error`
ErrorOf(message) == [isError |-> TRUE, message |-> message]
NoError == [isError |-> FALSE, message |-> << >>]

MsgMissingPdf == <<"Missing PDF(s)", ". 3 stages required.">>
MsgNoApiKey == <<"API key not configured">>
MsgEmptyExtraction == <<"Empty extraction response", " from model">>
MsgUnknown == <<"Unknown error">>
MsgFormData == <<"Failed to parse body as FormData.">>
MsgConfigRead == <<"EACCES: permission denied, open settings.json">>
MsgImport == <<"Cannot find module 'openai'">>
MsgBuffer == <<"The stream could not be read">>
MsgRateLimit == <<"429 Rate limit reached for requests">>
MsgInvalidKey == <<"401 Incorrect API key provided">>
MsgNoDiagnostics == <<"No diagnostic output provided">>

\* the JSON body of a response: keys are its top-level keys
NoData ==
  [mode |-> "", extractionReportText |-> << >>, extractionReportJson |-> JNull,
   augmentedReportText |-> << >>, debugKeys |-> {}, augmentationModel |-> << >>,
   vectorStoreUsed |-> FALSE, extractionDiagnostics |-> << >>, keys |-> {}]
NoResponse == [status |-> 0, keys |-> {}, ok |-> FALSE, error |-> << >>, data |-> NoData]
ErrorResponse(status, message) ==
  [status |-> status, keys |-> {"ok", "error"}, ok |-> FALSE, error |-> message,
   data |-> NoData]

\* lines 19-44 pdfToImages: a document is [loads, pages, badPage]; an image is
\* named by the page it was rendered from.  The iterator renders every page, the
\* requested ones are converted to PNG; any failure returns the empty list.
RECURSIVE RenderFrom(_, _, _)
RenderFrom(doc, pageNumber, requested) ==
  IF pageNumber > doc.pages THEN << >>
  ELSE (IF Includes(requested, pageNumber) THEN <<pageNumber>> ELSE << >>)
       \o RenderFrom(doc, pageNumber + 1, requested)

\* a converter that hands back the pages rendered before the failing one
pdfToImagesPartial(doc, requested) ==
  IF ~doc.loads THEN << >>
  ELSE IF doc.badPage \in 1..doc.pages
  THEN RenderFrom([doc EXCEPT !.pages = doc.badPage - 1], 1, requested)
  ELSE RenderFrom(doc, 1, requested)

pdfToImages(doc, requested) ==
  IF ~doc.loads \/ doc.badPage \in 1..doc.pages THEN << >>
  ELSE RenderFrom(doc, 1, requested)

Docs ==
  {[loads |-> l, pages |-> n, badPage |-> b] :
     l \in BOOLEAN, n \in 1..MaxPages, b \in 0..MaxPages}

\* image parts tagged with their position in the list
ImagePartsByIndex(stage, imgs) ==
  [idx \in 1..Len(imgs) |-> [stage |-> stage, image |-> imgs[idx], page |-> idx]]

\* lines 1069-1088: the image parts of one stage, each with its alt_text tag
\* `[1,2,3,4,5,8][idx] || idx+1`
ImageParts(stage, imgs) ==
  [idx \in 1..Len(imgs) |->
     [stage |-> stage, image |-> imgs[idx],
      page |-> IF idx <= Len(PagesList) THEN PagesList[idx] ELSE idx]]

\* a reply of the Responses API: output_text and output[0].content[0].text
ReplyOf(outputText, contentText) == [output_text |-> outputText, content_text |-> contentText]
NoReply == ReplyOf(Undef, Undef)

\* lines 1106-1107 and 1200-1201: output_text || (output[0].content[0].text ?? "")
ReplyText(reply) ==
  IF IsTruthy(reply.output_text) THEN reply.output_text.s
  ELSE IF reply.content_text.t = "undef" THEN << >> ELSE reply.content_text.s

\* the guard comparing against null instead of testing for the empty string
IsEmptyTextNever(text) == FALSE

\* line 1117: !extractionText
IsEmptyText(text) == text = << >>

\* lines 643-646
tryParseJSON(str) ==
  IF str = << >> THEN JNull
  ELSE LET r == JSONparse(str) IN IF r.threw THEN JNull ELSE r.val

\* parsed.key || {}
KeyOrEmpty(parsed, key) ==
  IF HasKey(parsed, key) /\ Truthy(GetKey(parsed, key)) THEN GetKey(parsed, key)
  ELSE EmptyObj

\* a cleaner that answers an unparseable candidate with the empty payload
cleanExtractedJsonDefaults(jsonText) ==
  LET r == JSONparse(jsonText) IN
  Stringify(JObj(<<"patient", "tests", "comparisons">>,
                 <<KeyOrEmpty(r.val, "patient"), KeyOrEmpty(r.val, "tests"),
                   KeyOrEmpty(r.val, "comparisons")>>))

\* a cleaner that re-serialises the candidate with every key it came with
cleanExtractedJsonKeepsExtra(jsonText) ==
  LET r == JSONparse(jsonText) IN
  IF r.threw \/ r.val.t = "null" THEN jsonText ELSE Stringify(r.val)

\* lines 649-672: a value that does not parse, or parses to null (the property
\* read throws), is returned as it came
cleanExtractedJson(jsonText) ==
  LET r == JSONparse(jsonText) IN
  IF r.threw \/ r.val.t = "null" THEN jsonText
  ELSE Stringify(JObj(<<"patient", "tests", "comparisons">>,
                      <<KeyOrEmpty(r.val, "patient"), KeyOrEmpty(r.val, "tests"),
                        KeyOrEmpty(r.val, "comparisons")>>))

\* ------------------------------------ lines 674-698 normalizeExtraction
\* the value of a number literal, in hundredths
NumValue(x) ==
  IF x.t = "zero" THEN 0
  ELSE IF x.t = "one" THEN 100
  ELSE IF x.s = "40" THEN 4000
  ELSE IF x.s = "49" THEN 4900
  ELSE IF x.s = "53" THEN 5300
  ELSE IF x.s = "2" THEN 200
  ELSE IF x.s = "3" THEN 300
  ELSE IF x.s = "1.5" THEN 150
  ELSE 133

\* obj.key = val and delete obj.key on an object value
SetProp(obj, key, val) ==
  LET put == ObjPut(obj.k, obj.v, key, val) IN JObj(put.ks, put.vs)
DeleteProp(obj, key) ==
  LET keep == {i \in 1..Len(obj.k) : obj.k[i] # key}
      Nth(n) == CHOOSE i \in keep : Cardinality({j \in keep : j <= i}) = n
  IN  JObj([n \in 1..Cardinality(keep) |-> obj.k[Nth(n)]],
           [n \in 1..Cardinality(keep) |-> obj.v[Nth(n)]])

\* lines 681-688: the load pair directly under page1
NormalizeLoads(t) ==
  LET page1 == Prop(t, "page1")
      left == Prop(page1, "left_load_pct")
      right == Prop(page1, "right_load_pct")
      sum == NumValue(left) + NumValue(right)
  IN  IF Truthy(page1) /\ IsNumber(left) /\ IsNumber(right)
         /\ ~(sum >= 98 * 100 /\ sum <= 102 * 100)
      THEN SetProp(t, "page1",
                   SetProp(SetProp(page1, "left_load_pct", JNull), "right_load_pct", JNull))
      ELSE t

\* lines 692-693: if (fft.from && !fft.to) { fft.to = fft.from; delete fft.from; }
RenameKey(fft, from, to) ==
  IF Truthy(Prop(fft, from)) /\ ~Truthy(Prop(fft, to))
  THEN DeleteProp(SetProp(fft, to, Prop(fft, from)), from)
  ELSE fft

\* lines 690-694: the legacy FFT key names
NormalizeFft(t) ==
  LET fft == Prop(t, "page4_fft")
  IN  IF Truthy(fft) /\ fft.t = "obj"
      THEN SetProp(t, "page4_fft", RenameKey(RenameKey(fft, "ml_x", "ml"), "ap_y", "ap"))
      ELSE t

\* lines 677-694: one turn of the loop
NormalizeStage(t) ==
  IF ~Truthy(t) \/ t.t # "obj" THEN t ELSE NormalizeFft(NormalizeLoads(t))

\* lines 674-698: the stages A, B, C of payload.tests, each on its own
normalizeExtraction(payload) ==
  LET tests == Prop(payload, "tests")
  IN  IF tests.t # "obj" THEN payload
      ELSE SetProp(payload, "tests",
                   JObj(tests.k, [i \in 1..Len(tests.k) |->
                                    IF tests.k[i] \in {"A", "B", "C"}
                                    THEN NormalizeStage(tests.v[i]) ELSE tests.v[i]]))

\* line 1136: /(\{[\s\S]*"patient"[\s\S]*\})\s*$/ : the leftmost brace that is
\* followed by "patient" and by a closing brace ending the text
LastNonWs(s) ==
  IF \A i \in 1..Len(s) : s[i] = WS THEN 0
  ELSE CHOOSE i \in 1..Len(s) : s[i] # WS /\ \A j \in (i + 1)..Len(s) : s[j] = WS
PatientMatch(s) ==
  LET open == IndexOf(s, "{")
      close == LastNonWs(s)
  IN  IF /\ open # -1
         /\ close > 0
         /\ s[close] = "}"
         /\ \E i \in (open + 2)..(close - 1) : s[i] = "patient"
      THEN [found |-> TRUE, index |-> open, group |-> SubSeq(s, open + 1, close)]
      ELSE [found |-> FALSE, index |-> -1, group |-> << >>]

\* the split cutting at the start marker instead of after it
SplitExtractionKeepsMarker(text) ==
  LET startIdx == IndexOf(text, fenceStart)
      endIdx == LastIndexOf(text, fenceEnd)
  IN  IF startIdx # -1 /\ endIdx # -1 /\ endIdx > startIdx
      THEN [diagnostics |-> Trim(Substring(text, 0, startIdx)),
            jsonText |-> Trim(Substring(text, startIdx, endIdx))]
      ELSE [diagnostics |-> << >>, jsonText |-> text]

\* lines 1122-1148: the split of the extraction text
SplitExtraction(text) ==
  LET startIdx == IndexOf(text, fenceStart)
      endIdx == LastIndexOf(text, fenceEnd)
      jsonMatch == PatientMatch(text)
      jsonStartIndex == IndexOf(text, "{")
  IN  IF startIdx # -1 /\ endIdx # -1 /\ endIdx > startIdx
      THEN [diagnostics |-> Trim(Substring(text, 0, startIdx)),
            jsonText |-> Trim(Substring(text, startIdx + 1, endIdx))]
      ELSE IF jsonMatch.found
      THEN [diagnostics |-> Trim(Substring(text, 0, jsonMatch.index)),
            jsonText |-> jsonMatch.group]
      ELSE IF jsonStartIndex > 0
      THEN [diagnostics |-> Trim(Substring(text, 0, jsonStartIndex)),
            jsonText |-> Trim(Substring(text, jsonStartIndex, Len(text)))]
      ELSE [diagnostics |-> << >>, jsonText |-> text]

\* lines 1167-1175: the second input part of the interpretation call
AugmentationInputOf(jsonText) ==
  <<"Extracted findings to augment (verbatim):">> \o jsonText

\* a catch block that hands back what was extracted so far
CatchBlockPartial(error) ==
  [status |-> 500, keys |-> {"ok", "error", "data"}, ok |-> FALSE,
   error |-> IF error.isError THEN error.message ELSE MsgUnknown,
   data |-> [NoData EXCEPT !.extractionReportText = extractionJsonText,
                           !.keys = {"extractionReportText"}]]

\* a catch block that hides the message of the exception
CatchBlockGeneric(error) == ErrorResponse(500, MsgUnknown)

\* lines 1240-1248: the catch block
CatchBlock(error) ==
  ErrorResponse(500, IF error.isError THEN error.message ELSE MsgUnknown)

\* lines 1213-1239: the aggregate response
SuccessResponse(mode, jsonText, diagnostics, augmented, st) ==
  [status |-> 200, keys |-> {"ok", "data"}, ok |-> TRUE, error |-> << >>,
   data |-> [mode |-> mode,
             extractionReportText |-> jsonText,
             extractionReportJson |-> tryParseJSON(jsonText),
             augmentedReportText |-> augmented,
             debugKeys |-> {"prepareMs", "extractionMs", "augmentationMs", "totalMs",
                            "extractionModel", "augmentationModel", "vectorStoreUsed",
                            "extractionDiagnostics"}
                           \cup (IF st.verboseOpenAI THEN {"verboseLogs"} ELSE {}),
             augmentationModel |-> OrElse(st.model, Str(LocalDefaultModel)).s,
             vectorStoreUsed |-> IsTruthy(st.vectorStoreId),
             extractionDiagnostics |-> IF diagnostics # << >> THEN diagnostics
                                       ELSE MsgNoDiagnostics,
             keys |-> {"mode", "extractionReportText", "extractionReportJson",
                       "augmentedReportText", "debug"}]]

\* the multipart form: parsed = FALSE when req.formData() rejects
FormOf(parsed, neutral, closed, cotton, mode) ==
  [parsed |-> parsed, neutral |-> neutral, closed_eyes |-> closed,
   cotton_rolls |-> cotton, mode |-> mode]
NoForm == FormOf(FALSE, FALSE, FALSE, FALSE, "")
NoSettings ==
  [threw |-> FALSE, apiKey |-> Undef, vectorStoreId |-> Undef, model |-> Undef,
   language |-> Undef, verboseOpenAI |-> FALSE]
NoImages == [st \in Stages |-> << >>]

\* the handler stops with a response
Respond(r) ==
  /\ response' = r
  /\ pc' = "done"

\* an exception reaches the catch block of the handler
Throw(error) ==
  /\ thrown' = error
  /\ Respond(CatchBlock(error))

\* lines 700-770: the handler runs up to `await req.formData()`
StartRequest(f) ==
  /\ pc = "idle"
  /\ form' = f
  /\ pc' = "formData"
  /\ UNCHANGED <<cfgVars, fnVars, auxVars, concVars, settings, conv, images, extractionInput, calls,
                 extractionResp, extractionText, extractionDiagnostics, extractionJsonText,
                 augmentationInput, augmentedText, thrown, response>>

\* the guard written with || instead of &&
FilesPresentAny(f) == f.neutral \/ f.closed_eyes \/ f.cotton_rolls

\* line 776: the three files are required
FilesPresent(f) == f.neutral /\ f.closed_eyes /\ f.cotton_rolls

\* lines 770-793: the form is read, the files and the key are checked
FormDataSettled ==
  /\ pc = "formData"
  /\ LET st == getDefaultSettings IN
     IF ~form.parsed
     THEN Throw(ErrorOf(MsgFormData)) /\ UNCHANGED settings
     ELSE IF ~FilesPresent(form)
     THEN Respond(ErrorResponse(400, MsgMissingPdf)) /\ UNCHANGED <<settings, thrown>>
     ELSE IF st.threw
     THEN Throw(ErrorOf(MsgConfigRead)) /\ UNCHANGED settings
     ELSE IF ~IsTruthy(st.apiKey)
     THEN Respond(ErrorResponse(500, MsgNoApiKey)) /\ settings' = st /\ UNCHANGED thrown
     ELSE /\ settings' = st
          /\ pc' = "import"
          /\ UNCHANGED <<thrown, response>>
  /\ UNCHANGED <<cfgVars, fnVars, auxVars, concVars, form, conv, images, extractionInput, calls,
                 extractionResp, extractionText, extractionDiagnostics, extractionJsonText,
                 augmentationInput, augmentedText>>

\* lines 793-800: await import("openai"); the first element of the array
\* literal is evaluated, which starts neutral.arrayBuffer() and awaits it
ImportOpenAI(ok) ==
  /\ pc = "import"
  /\ IF ok THEN /\ pc' = "bufA"
                /\ calls' = Append(calls, "arrayBuffer:A")
                /\ UNCHANGED <<thrown, response>>
     ELSE Throw(ErrorOf(MsgImport)) /\ UNCHANGED calls
  /\ UNCHANGED <<cfgVars, fnVars, auxVars, concVars, form, settings, conv, images, extractionInput,
                 extractionResp, extractionText, extractionDiagnostics, extractionJsonText,
                 augmentationInput, augmentedText>>

\* lines 799-814: the three arrayBuffer() awaits sit inside the array literal
\* and run one after the other; after the third the three conversions start
BufferFile(stage, ok) ==
  /\ pc = "buf" \o stage
  /\ IF ~ok THEN Throw(ErrorOf(MsgBuffer)) /\ UNCHANGED <<conv, calls>>
     ELSE IF stage = "C"
     THEN /\ pc' = "images"
          /\ conv' = [st \in Stages |-> "running"]
          /\ calls' = calls \o <<"pdfToImages:A", "pdfToImages:B", "pdfToImages:C">>
          /\ UNCHANGED <<thrown, response>>
     ELSE /\ pc' = (IF stage = "A" THEN "bufB" ELSE "bufC")
          /\ calls' = Append(calls, IF stage = "A" THEN "arrayBuffer:B"
                                                   ELSE "arrayBuffer:C")
          /\ UNCHANGED <<conv, thrown, response>>
  /\ UNCHANGED <<cfgVars, fnVars, auxVars, concVars, form, settings, images, extractionInput,
                 extractionResp, extractionText, extractionDiagnostics, extractionJsonText,
                 augmentationInput, augmentedText>>

\* one pdfToImages call settles (it never rejects)
ConvertSettled(stage, doc) ==
  /\ pc = "images"
  /\ conv[stage] = "running"
  /\ conv' = [conv EXCEPT ![stage] = "done"]
  /\ images' = [images EXCEPT ![stage] = pdfToImages(doc, PagesList)]
  /\ UNCHANGED <<cfgVars, fnVars, auxVars, concVars, pc, form, settings, extractionInput, calls,
                 extractionResp, extractionText, extractionDiagnostics, extractionJsonText,
                 augmentationInput, augmentedText, thrown, response>>

\* both model calls issued together
StartExtractionBoth ==
  /\ pc = "images"
  /\ \A st \in Stages : conv[st] = "done"
  /\ extractionInput' = ImageParts("A", images["A"]) \o ImageParts("B", images["B"])
                        \o ImageParts("C", images["C"])
  /\ calls' = calls \o <<"extraction:start", "augmentation:start">>
  /\ pc' = "extraction"
  /\ UNCHANGED <<cfgVars, fnVars, auxVars, concVars, form, settings, conv, images,
                 extractionResp, extractionText, extractionDiagnostics, extractionJsonText,
                 augmentationInput, augmentedText, thrown, response>>

\* lines 816-1104: Promise.all joins, the input is built, call #1 is issued
StartExtraction ==
  /\ pc = "images"
  /\ \A st \in Stages : conv[st] = "done"
  /\ extractionInput' = ImageParts("A", images["A"]) \o ImageParts("B", images["B"])
                        \o ImageParts("C", images["C"])
  /\ calls' = Append(calls, "extraction:start")
  /\ pc' = "extraction"
  /\ UNCHANGED <<cfgVars, fnVars, auxVars, concVars, form, settings, conv, images,
                 extractionResp, extractionText, extractionDiagnostics, extractionJsonText,
                 augmentationInput, augmentedText, thrown, response>>

\* lines 1106-1198: call #1 resolves; the text is checked, split, cleaned, and
\* call #2 is issued.  The images and the input of call #1 are not read again.
ExtractionReturns(reply) ==
  /\ pc = "extraction"
  /\ extractionResp' = reply
  /\ extractionText' = ReplyText(reply)
  /\ images' = NoImages
  /\ extractionInput' = << >>
  /\ IF IsEmptyText(ReplyText(reply))
     THEN /\ Throw(ErrorOf(MsgEmptyExtraction))
          /\ calls' = Append(calls, "extraction:end")
          /\ UNCHANGED <<extractionDiagnostics, extractionJsonText, augmentationInput>>
     ELSE LET split == SplitExtraction(ReplyText(reply))
              cleaned == cleanExtractedJson(split.jsonText)
          IN  /\ extractionDiagnostics' = split.diagnostics
              /\ extractionJsonText' = cleaned
              /\ augmentationInput' = AugmentationInputOf(cleaned)
              /\ calls' = calls \o <<"extraction:end", "augmentation:start">>
              /\ pc' = "augmentation"
              /\ UNCHANGED <<thrown, response>>
  /\ UNCHANGED <<cfgVars, fnVars, auxVars, concVars, form, settings, conv, augmentedText>>

\* call #1 wrapped in withRetry: a rate-limit error issues the call again
ExtractionThrowsRetried(error) ==
  /\ pc = "extraction"
  /\ IF error.message = MsgRateLimit /\ Len(calls) < 12
     THEN /\ calls' = Append(calls, "extraction:start")
          /\ UNCHANGED <<pc, images, extractionInput, thrown, response>>
     ELSE /\ images' = NoImages
          /\ extractionInput' = << >>
          /\ Throw(error)
          /\ UNCHANGED calls
  /\ UNCHANGED <<cfgVars, fnVars, auxVars, concVars, form, settings, conv,
                 extractionResp, extractionText, extractionDiagnostics, extractionJsonText,
                 augmentationInput, augmentedText>>

\* call #1 rejects (rate limit, invalid key, ...)
ExtractionThrows(error) ==
  /\ pc = "extraction"
  /\ images' = NoImages
  /\ extractionInput' = << >>
  /\ Throw(error)
  /\ UNCHANGED <<cfgVars, fnVars, auxVars, concVars, form, settings, conv, calls,
                 extractionResp, extractionText, extractionDiagnostics, extractionJsonText,
                 augmentationInput, augmentedText>>

\* lines 1200-1239: call #2 resolves and the aggregate response is returned
AugmentationReturns(reply) ==
  /\ pc = "augmentation"
  /\ augmentedText' = ReplyText(reply)
  /\ calls' = Append(calls, "augmentation:end")
  /\ Respond(SuccessResponse(IF form.mode = "" THEN "normal" ELSE form.mode,
                             extractionJsonText, extractionDiagnostics,
                             ReplyText(reply), settings))
  /\ UNCHANGED <<cfgVars, fnVars, auxVars, concVars, form, settings, conv, images, extractionInput,
                 extractionResp, extractionText, extractionDiagnostics, extractionJsonText,
                 augmentationInput, thrown>>

\* call #2 rejects
AugmentationThrows(error) ==
  /\ pc = "augmentation"
  /\ Throw(error)
  /\ UNCHANGED <<cfgVars, fnVars, auxVars, concVars, form, settings, conv, images, extractionInput, calls,
                 extractionResp, extractionText, extractionDiagnostics, extractionJsonText,
                 augmentationInput, augmentedText>>

\* ------------------------------------------------- extraction payloads
\* an object from its keys and values, absent (undefined) values left out
ObjOf(ks, vs) ==
  LET keep == {i \in 1..Len(ks) : vs[i] # JUndef}
      Nth(n) == CHOOSE i \in keep : Cardinality({j \in keep : j <= i}) = n
  IN  JObj([n \in 1..Cardinality(keep) |-> ks[Nth(n)]],
           [n \in 1..Cardinality(keep) |-> vs[Nth(n)]])

LoadValues == {JUndef, JNull, JNum("40"), JNum("49"), JNum("53")}
LoadPair(l, r) == ObjOf(<<"left_load_pct", "right_load_pct">>, <<l, r>>)
\* the pair directly under page1, and under page1.loads as in the schema
FlatStage(l, r) == JObj(<<"page1">>, <<LoadPair(l, r)>>)
LoadsStage(l, r) == JObj(<<"page1">>, <<JObj(<<"loads">>, <<LoadPair(l, r)>>)>>)
FftStage(fft) == JObj(<<"page1", "page4_fft">>, <<LoadPair(JNum("40"), JNum("49")), fft>>)

\* lines 1012-1038: a stage with one page-1 global metric
MetricStage(value) ==
  JObj(<<"page1">>,
       <<JObj(<<"global_metrics">>,
              <<JObj(<<"area_mm2">>, <<JObj(<<"value">>, <<value>>)>>)>>)>>)
Payload(tests, comparisons) ==
  JObj(<<"patient", "tests", "comparisons">>, <<EmptyObj, tests, comparisons>>)
\* lines 987-990: { ratio, pct_change } for a page-1 global metric
RatioPair(ratio) == JObj(<<"ratio", "pct_change">>, <<ratio, JStr("+50%")>>)
\* a reply whose Romberg comparison of area_mm2 carries the given ratio
RatioPayload(a, b, ratio) ==
  Payload(JObj(<<"A", "B">>, <<MetricStage(a), MetricStage(b)>>),
          JObj(<<"romberg_b_over_a">>, <<JObj(<<"area_mm2">>, <<RatioPair(ratio)>>)>>))
\* a reply that gives the angular deviation the same { ratio, pct_change }
AnglePayload ==
  Payload(EmptyObj,
          JObj(<<"romberg_b_over_a">>,
               <<JObj(<<"ellipse_ap_deviation_deg">>, <<RatioPair(JNum("1.5"))>>)>>))
\* a reply whose stage A has a load pair of the given values
LoadsPayload(l, r) == Payload(JObj(<<"A">>, <<FlatStage(l, r)>>), EmptyObj)

Payloads ==
  {RatioPayload(JNum("2"), JNum("3"), JNum("1.5")),
   RatioPayload(JNum("2"), JNum("3"), JNum("1.33")),
   RatioPayload(JNull, JNum("3"), JNum("1.5")),
   AnglePayload,
   LoadsPayload(JNum("49"), JNum("53")),
   LoadsPayload(JNum("40"), JNum("49"))}

\* ------------------------------------------------------ oracle reply sets
Object3 ==
  <<"{", "patient", ":", "{", "}", ",", "tests", ":", "{", "}", ",",
    "comparisons", ":", "{", "}", "}">>
\* JSON candidates: well formed (objects, scalars, an array) and malformed
Cores ==
  {Object3,
   <<"{", "patient", ":", "1", ",", "extra", ":", "1", "}">>,
   <<"{", WS, "patient", ":", "0", WS, "}">>,
   <<"{", "tests", ":", "[", "1", "]", "}">>,
   <<"null">>, <<"1">>, <<"[", "1", "]">>,
   <<"{", "patient", "1", "}">>,
   <<"{", "patient", ":", "1", ",", "}">>}

\* the ways the model wraps (or fails to wrap) the candidate
Wrap(core) ==
  {<<fenceStart>> \o core \o <<fenceEnd>>,
   <<"diag", WS, fenceStart, WS>> \o core \o <<WS, fenceEnd>>,
   <<fenceStart>> \o core \o <<fenceEnd, "diag">>,
   <<fenceStart>> \o core \o <<fenceEnd, "diag", fenceEnd>>,
   <<fenceEnd, fenceStart>> \o core,
   <<"diag", fenceStart>> \o core,
   core,
   core \o <<WS>>,
   <<"diag", WS>> \o core,
   <<"diag", "{", "diag", "}", WS>> \o core}

ExtractionTexts ==
  UNION {Wrap(core) : core \in Cores}
  \cup {<<WS>>, <<"diag">>}
  \cup {<<"diag", WS, fenceStart>> \o Stringify(payload) \o <<fenceEnd>> : payload \in Payloads}

ExtractionReplies ==
  {ReplyOf(Str(t), Undef) : t \in ExtractionTexts}
  \cup {ReplyOf(Undef, Undef), ReplyOf(Str(<< >>), Undef), ReplyOf(Str(<< >>), Str(<< >>)),
        ReplyOf(Undef, Str(<<fenceStart>> \o Object3 \o <<fenceEnd>>))}

Narrative == <<"PRIMARY: visual", "KB support: none found">>
AugmentationReplies ==
  {ReplyOf(Str(Narrative), Undef), ReplyOf(Undef, Str(Narrative)),
   ReplyOf(Str(<< >>), Undef), ReplyOf(Undef, Undef)}

ProviderErrors == {ErrorOf(MsgRateLimit), ErrorOf(MsgInvalidKey)}

Forms ==
  {NoForm} \cup
  {FormOf(TRUE, a, b, c, m) : a \in BOOLEAN, b \in BOOLEAN, c \in BOOLEAN,
                              m \in {"", "comparison"}}

\* the state of the request before the handler runs
InitRequest ==
  /\ pc = "idle"
  /\ form = NoForm
  /\ settings = NoSettings
  /\ conv = [st \in Stages |-> "idle"]
  /\ images = NoImages
  /\ extractionInput = << >>
  /\ calls = << >>
  /\ extractionResp = NoReply
  /\ extractionText = << >>
  /\ extractionDiagnostics = << >>
  /\ extractionJsonText = << >>
  /\ augmentationInput = << >>
  /\ augmentedText = << >>
  /\ thrown = NoError
  /\ response = NoResponse

\* no function call under way
NoDoc == [loads |-> FALSE, pages |-> 0, badPage |-> 0]
InitFn ==
  /\ ex = JUndef
  /\ normalized = JUndef
  /\ normalizeCalls = 0
  /\ pdfDoc = NoDoc
  /\ pagesToExtract = << >>
  /\ pdfImages = << >>

\* ------------------------------------- the parts of the program not running
\* a thrown or caught value of withRetry: err?.status, err?.message and
\* err?.error?.type of the value; defined is FALSE for undefined
ErrOf(status, message, type) ==
  [defined |-> TRUE, status |-> status, message |-> message, errorType |-> type]
UndefinedErr == [defined |-> FALSE, status |-> 0, message |-> << >>, errorType |-> ""]
OutcomeOf(kind, err) == [kind |-> kind, err |-> err]
NoOutcome == OutcomeOf("none", UndefinedErr)

IdleRetry ==
  /\ attempt = 0
  /\ maxAttempts = 0
  /\ lastErr = UndefinedErr
  /\ delay = 0
  /\ fnCalls = 0
  /\ retryPc = "idle"
  /\ retryOut = NoOutcome

IdleLegacy ==
  /\ legacyPc = "idle"
  /\ uploaded = {}
  /\ deleted = {}
  /\ attempts = 0
  /\ runStatus = "none"
  /\ lastEvent = << >>
  /\ streamClosed = FALSE

\* requests in flight at the same time
MaxBootClients == 2
BootClients == 1..MaxBootClients

IdleConc ==
  /\ bootPc = [c \in BootClients |-> "idle"]
  /\ bootBodyOf = [c \in BootClients |-> NoBody]
  /\ bootAnswer = [c \in BootClients |-> NoBootResponse]

MaxAnalyzeClients == 2
AnalyzeClients == 1..MaxAnalyzeClients
NoLogAnswer == [status |-> 0, verboseLogs |-> << >>, hasVerboseLogs |-> FALSE]

IdleLog ==
  /\ consoleLog = << >>
  /\ originalConsoleLog = [c \in AnalyzeClients |-> << >>]
  /\ debugLogs = [c \in AnalyzeClients |-> << >>]
  /\ logPc = [c \in AnalyzeClients |-> "idle"]
  /\ logAnswer = [c \in AnalyzeClients |-> NoLogAnswer]

FileStages == {"neutral", "closed_eyes", "cotton_rolls"}
\* runs of onSubmit followed, one after the other
MaxRuns == 3
Runs == 1..MaxRuns

IdleClient ==
  /\ files = [st \in FileStages |-> FALSE]
  /\ busy = FALSE
  /\ errorState = "null"
  /\ resultState = "null"
  /\ progressInterval = [r \in Runs |-> "none"]
  /\ submitPc = [r \in Runs |-> "idle"]
  /\ runsStarted = 0

\* no configuration, no request of either route, no function call
InitQuiet ==
  /\ env = EnvUnset
  /\ cfgFile = NoFile
  /\ bootReq = NoBody
  /\ bootResp = NoBootResponse
  /\ cfgResp = << >>
  /\ InitRequest
  /\ InitFn

InitAux == IdleRetry /\ IdleLegacy /\ IdleLog /\ IdleClient /\ IdleConc

\* ------------------------------------------- the bootstrap endpoint alone
InitBoot ==
  /\ env = EnvUnset
  /\ cfgFile \in {f \in InitFiles : f.kind = "object" => f.ApiKey.t \in {"undef", "str"} /\ f.ApiKey.s # Blank}
  /\ bootReq = NoBody
  /\ bootResp = NoBootResponse
  /\ cfgResp = << >>
  /\ InitRequest
  /\ InitFn
  /\ InitAux

Bootstrap == \E body \in BootBodies, fs \in FsOutcomes : BootstrapKey(body, fs) /\ UNCHANGED concVars

NextBoot == Bootstrap \/ GetConfig

SpecBoot == InitBoot /\ [][NextBoot]_vars

\* ----------------------------- the resolver under every environment / file
InitResolve ==
  /\ env \in Envs
  /\ cfgFile \in InitFiles
  /\ bootReq = NoBody
  /\ bootResp = NoBootResponse
  /\ cfgResp = << >>
  /\ InitRequest
  /\ InitFn
  /\ InitAux

\* first-run provisioning and rotation requests of one operator
ProvisionBodies ==
  {b \in BootBodies : /\ b.parsed /\ b.apiKey = Str(K1) /\ b.verboseOpenAI = "undef"
                      /\ b.rotate # "false"
                      /\ (b.language = Undef <=> b.vectorStoreId = Undef)}

Provision == \E body \in ProvisionBodies : BootstrapKey(body, "ok") /\ UNCHANGED concVars

\* an analyze request with the three files, up to the key check
FullForm == FormOf(TRUE, TRUE, TRUE, TRUE, "")

NextResolve ==
  \/ Provision
  \/ GetConfig
  \/ StartRequest(FullForm)
  \/ FormDataSettled

SpecResolve == InitResolve /\ [][NextResolve]_vars

\* ------------------------------------------- normalizeExtraction alone
MaxNormalizeCalls == 2

StageBlocks ==
  {FlatStage(l, r) : l \in LoadValues, r \in LoadValues}
  \cup {LoadsStage(JNum("49"), JNum("49")), LoadsStage(JNum("40"), JNum("49")),
        LoadsStage(JNull, JNum("49"))}
  \cup {FftStage(JObj(<<"ml_x">>, <<JOne>>)),
        FftStage(JObj(<<"ml_x", "ml">>, <<JOne, JNum("2")>>)),
        FftStage(JObj(<<"ap", "ap_y">>, <<JNull, JOne>>)),
        FftStage(JOne)}
  \cup {JUndef, JNull, JOne}

NormalizePayloads ==
  {JObj(<<"patient", "tests", "comparisons">>,
        <<EmptyObj, ObjOf(<<"A", "B", "C">>, <<a, b, c>>), EmptyObj>>) :
     a \in StageBlocks,
     b \in {JUndef, FlatStage(JNum("53"), JNum("53")), FlatStage(JNum("49"), JNum("53")),
            LoadsStage(JNum("53"), JNum("53"))},
     c \in {JUndef, FlatStage(JNum("49"), JNum("49"))}}
  \cup {JNull, EmptyObj, JObj(<<"tests">>, <<JArr(<<JOne>>)>>)}

InitNormalize ==
  /\ env = EnvUnset
  /\ cfgFile = NoFile
  /\ bootReq = NoBody
  /\ bootResp = NoBootResponse
  /\ cfgResp = << >>
  /\ InitRequest
  /\ ex \in NormalizePayloads
  /\ normalized = JUndef
  /\ normalizeCalls = 0
  /\ pdfDoc = NoDoc
  /\ pagesToExtract = << >>
  /\ pdfImages = << >>
  /\ InitAux

\* normalizeExtraction is applied to ex, then to what it returned
Normalize ==
  /\ normalizeCalls < MaxNormalizeCalls
  /\ normalized' = normalizeExtraction(IF normalizeCalls = 0 THEN ex ELSE normalized)
  /\ normalizeCalls' = normalizeCalls + 1
  /\ UNCHANGED <<cfgVars, reqVars, auxVars, concVars, ex, pdfDoc, pagesToExtract, pdfImages>>

NextNormalize == Normalize

SpecNormalize == InitNormalize /\ [][NextNormalize]_vars

\* ------------------------------- pdfToImages alone and under its caller
\* pages of the largest document converted
MaxDocPages == 8

BigDocs ==
  {[loads |-> l, pages |-> n, badPage |-> b] :
     l \in BOOLEAN, n \in 1..MaxDocPages, b \in 0..MaxDocPages}

\* the default list, the same pages in descending order, and shorter requests
RequestedLists ==
  {PagesList, <<8, 5, 4, 3, 2, 1>>, <<3, 1>>, <<2, 2>>, <<MaxDocPages + 1>>, << >>}

InitPdf ==
  /\ env = EnvOf(Str(EnvKey), Undef, Undef, Undef)
  /\ cfgFile = NoFile
  /\ bootReq = NoBody
  /\ bootResp = NoBootResponse
  /\ cfgResp = << >>
  /\ InitRequest
  /\ InitFn
  /\ InitAux

\* pdfToImages(pdfBuffer, pagesToExtract) called on its own
PdfToImagesCall(doc, requested) ==
  /\ pc = "idle"
  /\ pdfDoc = NoDoc
  /\ pdfDoc' = doc
  /\ pagesToExtract' = requested
  /\ pdfImages' = pdfToImages(doc, requested)
  /\ UNCHANGED <<cfgVars, reqVars, auxVars, concVars, ex, normalized, normalizeCalls>>

\* one request with the three files, up to the extraction call
NextPdf ==
  \/ \E doc \in BigDocs, requested \in RequestedLists : PdfToImagesCall(doc, requested)
  \/ pdfDoc = NoDoc /\ StartRequest(FullForm)
  \/ FormDataSettled
  \/ ImportOpenAI(TRUE)
  \/ \E stage \in Stages : BufferFile(stage, TRUE)
  \/ \E stage \in Stages, doc \in BigDocs : ConvertSettled(stage, doc)
  \/ StartExtraction

SpecPdf == InitPdf /\ [][NextPdf]_vars

\* ------------------------------------------- withRetry (route.ts 63-83)
\* the largest maxAttempts passed (the default is 5)
MaxAttemptsBound == 5

\* /Rate limit/i is case-insensitive: a fragment in lower case
Lower(fragment) ==
  CASE fragment = "Rate limit" -> "rate limit"
    [] fragment = "RATE LIMIT" -> "rate limit"
    [] fragment = "Rate Limit" -> "rate limit"
    [] OTHER -> fragment

\* /Rate limit/i.test(err?.message || "")
MatchesRateLimit(message) ==
  \E i \in 1..Len(message) : Lower(message[i]) = "rate limit"

\* a classifier that looks at the HTTP status only
is429StatusOnly(err) == err.defined /\ err.status = 429

\* lines 71-74
is429(err) ==
  /\ err.defined
  /\ \/ err.status = 429
     \/ MatchesRateLimit(err.message)
     \/ err.errorType = "rate_limit_exceeded"

\* 2^k
RECURSIVE Pow2(_)
Pow2(k) == IF k = 0 THEN 1 ELSE 2 * Pow2(k - 1)

\* Math.floor(Math.random() * 250) is one of 0..249
Jitters == {0, 1, 125, 249}

\* what fn can reject with
RetryErrors ==
  {ErrOf(429, <<"Too Many Requests">>, ""),
   ErrOf(500, <<"RATE LIMIT", " reached for requests">>, ""),
   ErrOf(0, << >>, "rate_limit_exceeded"),
   ErrOf(401, <<"Incorrect API key provided">>, "invalid_request_error"),
   ErrOf(0, <<"fetch failed">>, ""),
   UndefinedErr}

otherThanRetry == <<cfgVars, reqVars, fnVars, legacyVars, logVars, clientVars, concVars>>

\* lines 63-67: the call, the loop test with attempt = 0 and the first fn()
WithRetry(m) ==
  /\ retryPc = "idle"
  /\ maxAttempts' = m
  /\ attempt' = 0
  /\ lastErr' = UndefinedErr
  /\ delay' = 0
  /\ IF 0 < m
     THEN retryPc' = "fn" /\ fnCalls' = 1 /\ retryOut' = NoOutcome
     ELSE /\ retryPc' = "thrown"
          /\ fnCalls' = 0
          /\ retryOut' = OutcomeOf("error", UndefinedErr)
  /\ UNCHANGED otherThanRetry

\* line 67: fn() resolves and its value is returned
FnResolves ==
  /\ retryPc = "fn"
  /\ retryPc' = "returned"
  /\ retryOut' = OutcomeOf("value", UndefinedErr)
  /\ UNCHANGED <<attempt, maxAttempts, lastErr, delay, fnCalls>>
  /\ UNCHANGED otherThanRetry

\* lines 68-78: fn() rejects; a rate-limit error starts the backoff timer
FnRejects(err, jitter) ==
  /\ retryPc = "fn"
  /\ lastErr' = err
  /\ IF ~is429(err)
     THEN /\ retryPc' = "thrown"
          /\ retryOut' = OutcomeOf("error", err)
          /\ UNCHANGED delay
     ELSE /\ delay' = 250 * Pow2(attempt) + jitter
          /\ retryPc' = "wait"
          /\ UNCHANGED retryOut
  /\ UNCHANGED <<attempt, maxAttempts, fnCalls>>
  /\ UNCHANGED otherThanRetry

\* lines 78-82, 66-67: the timer fires, attempt++, the loop test, then either
\* the next fn() or throw lastErr
TimerFires ==
  /\ retryPc = "wait"
  /\ attempt' = attempt + 1
  /\ IF attempt + 1 < maxAttempts
     THEN retryPc' = "fn" /\ fnCalls' = fnCalls + 1 /\ UNCHANGED retryOut
     ELSE /\ retryPc' = "thrown"
          /\ retryOut' = OutcomeOf("error", lastErr)
          /\ UNCHANGED fnCalls
  /\ UNCHANGED <<maxAttempts, lastErr, delay>>
  /\ UNCHANGED otherThanRetry

InitRetry == InitQuiet /\ InitAux

NextRetry ==
  \/ \E m \in 0..MaxAttemptsBound : WithRetry(m)
  \/ FnResolves
  \/ \E err \in RetryErrors, jitter \in Jitters : FnRejects(err, jitter)
  \/ TimerFires

\* fn settles and timers fire: a pending step is eventually taken
SpecRetry == InitRetry /\ [][NextRetry]_vars /\ WF_vars(NextRetry)

\* ------------------------- the legacy polling route (src/unnamed/part_006)
\* line 200: const maxAttempts = 60
pollMaxAttempts == 60

UploadOrder == <<"neutral", "closed_eyes", "cotton_rolls">>
AllUploaded == {"neutral", "closed_eyes", "cotton_rolls"}
RunStatuses == {"queued", "in_progress", "requires_action", "expired", "completed", "failed"}

MsgUploadFailed == <<"Failed to upload PDF files">>
MsgTimedOut == <<"Analysis timed out">>
MsgRunFailed == <<"Unknown error">>
MsgStream == <<"Connection error.">>

otherThanLegacy == <<cfgVars, reqVars, fnVars, retryVars, logVars, clientVars, concVars>>

\* an error event is enqueued and the stream is closed
CloseWith(event) ==
  /\ lastEvent' = event
  /\ streamClosed' = TRUE
  /\ legacyPc' = "closed"

\* lines 319-326: the catch block of start()
LegacyCatch == CloseWith(MsgStream)

\* lines 202, 232-317: the loop test and, once the loop is left, the three exits
LoopOrLeave(status, polls) ==
  IF status # "completed" /\ status # "failed" /\ polls < pollMaxAttempts
  THEN /\ legacyPc' = "poll"
       /\ UNCHANGED <<deleted, lastEvent, streamClosed>>
  ELSE IF status = "failed"
  THEN /\ deleted' = uploaded
       /\ legacyPc' = "deleteFailed"
       /\ UNCHANGED <<lastEvent, streamClosed>>
  ELSE IF status = "completed"
  THEN /\ legacyPc' = "messages"
       /\ UNCHANGED <<deleted, lastEvent, streamClosed>>
  ELSE CloseWith(MsgTimedOut) /\ UNCHANGED deleted

\* lines 12-25: the stream starts and awaits req.formData()
LegacyStart(f) ==
  /\ legacyPc = "idle"
  /\ pc = "idle"
  /\ form' = f
  /\ legacyPc' = "formData"
  /\ lastEvent' = <<"status">>
  /\ UNCHANGED <<uploaded, deleted, attempts, runStatus, streamClosed>>
  /\ UNCHANGED <<cfgVars, fnVars, retryVars, logVars, clientVars, concVars,
                 pc, settings, conv, images, extractionInput, calls,
                 extractionResp, extractionText, extractionDiagnostics, extractionJsonText,
                 augmentationInput, augmentedText, thrown, response>>

\* lines 25-61: the form is read, the files and the key are checked
LegacyFormSettled ==
  /\ legacyPc = "formData"
  /\ LET st == getDefaultSettings IN
     IF ~form.parsed THEN LegacyCatch
     ELSE IF ~FilesPresent(form) THEN CloseWith(MsgMissingPdf)
     ELSE IF st.threw THEN LegacyCatch
     ELSE IF ~IsTruthy(st.apiKey) THEN CloseWith(MsgNoApiKey)
     ELSE legacyPc' = "import" /\ UNCHANGED <<lastEvent, streamClosed>>
  /\ UNCHANGED <<uploaded, deleted, attempts, runStatus>>
  /\ UNCHANGED otherThanLegacy

\* line 61: await import("openai")
LegacyImport(ok) ==
  /\ legacyPc = "import"
  /\ IF ok THEN legacyPc' = "upload" /\ UNCHANGED <<lastEvent, streamClosed>>
     ELSE LegacyCatch
  /\ UNCHANGED <<uploaded, deleted, attempts, runStatus>>
  /\ UNCHANGED otherThanLegacy

\* lines 72-121: the next PDF is buffered and uploaded; a failure closes the
\* stream from the inner catch
UploadSettles(ok) ==
  /\ legacyPc = "upload"
  /\ LET next == UploadOrder[Cardinality(uploaded) + 1] IN
     IF ~ok
     THEN CloseWith(MsgUploadFailed) /\ UNCHANGED uploaded
     ELSE /\ uploaded' = uploaded \cup {next}
          /\ legacyPc' = IF Cardinality(uploaded) = 2 THEN "thread" ELSE "upload"
          /\ UNCHANGED <<lastEvent, streamClosed>>
  /\ UNCHANGED <<deleted, attempts, runStatus>>
  /\ UNCHANGED otherThanLegacy

\* lines 129-186: threads.create settles, runs.create is called
ThreadCreated(ok) ==
  /\ legacyPc = "thread"
  /\ IF ok THEN legacyPc' = "run" /\ UNCHANGED <<lastEvent, streamClosed>>
     ELSE LegacyCatch
  /\ UNCHANGED <<uploaded, deleted, attempts, runStatus>>
  /\ UNCHANGED otherThanLegacy

\* lines 186-202: runs.create settles and the loop is entered
RunCreated(ok, status) ==
  /\ legacyPc = "run"
  /\ IF ok
     THEN runStatus' = status /\ LoopOrLeave(status, attempts)
     ELSE LegacyCatch /\ UNCHANGED <<runStatus, deleted>>
  /\ UNCHANGED <<uploaded, attempts>>
  /\ UNCHANGED otherThanLegacy

\* lines 203-230: one second later runs.retrieve settles
PollSettles(ok, status) ==
  /\ legacyPc = "poll"
  /\ IF ok
     THEN /\ runStatus' = status
          /\ attempts' = attempts + 1
          /\ LoopOrLeave(status, attempts + 1)
     ELSE LegacyCatch /\ UNCHANGED <<runStatus, attempts, deleted>>
  /\ UNCHANGED uploaded
  /\ UNCHANGED otherThanLegacy

\* lines 266-317: messages.list settles
MessagesListed(ok, hasText) ==
  /\ legacyPc = "messages"
  /\ IF ~ok THEN LegacyCatch /\ UNCHANGED deleted
     ELSE IF hasText
     THEN /\ deleted' = uploaded
          /\ legacyPc' = "deleteCompleted"
          /\ UNCHANGED <<lastEvent, streamClosed>>
     ELSE CloseWith(MsgTimedOut) /\ UNCHANGED deleted
  /\ UNCHANGED <<uploaded, attempts, runStatus>>
  /\ UNCHANGED otherThanLegacy

\* lines 243-256, 296-309: the deletions settle (a rejection is swallowed)
DeletesSettled ==
  /\ legacyPc \in {"deleteFailed", "deleteCompleted"}
  /\ CloseWith(IF legacyPc = "deleteFailed" THEN MsgRunFailed ELSE <<"complete">>)
  /\ UNCHANGED <<uploaded, deleted, attempts, runStatus>>
  /\ UNCHANGED otherThanLegacy

InitLegacy ==
  /\ env \in {EnvUnset, EnvOf(Str(EnvKey), Undef, Undef, Undef)}
  /\ cfgFile = NoFile
  /\ bootReq = NoBody
  /\ bootResp = NoBootResponse
  /\ cfgResp = << >>
  /\ InitRequest
  /\ InitFn
  /\ InitAux

NextLegacy ==
  \/ \E f \in Forms : LegacyStart(f)
  \/ LegacyFormSettled
  \/ \E ok \in BOOLEAN : LegacyImport(ok)
  \/ \E ok \in BOOLEAN : UploadSettles(ok)
  \/ \E ok \in BOOLEAN : ThreadCreated(ok)
  \/ \E ok \in BOOLEAN, status \in RunStatuses : RunCreated(ok, status)
  \/ \E ok \in BOOLEAN, status \in RunStatuses : PollSettles(ok, status)
  \/ \E ok \in BOOLEAN, hasText \in BOOLEAN : MessagesListed(ok, hasText)
  \/ DeletesSettled

SpecLegacy == InitLegacy /\ [][NextLegacy]_vars

\* --------------- concurrent POST /api/bootstrap-key requests (route 16-83)
otherThanConc == <<reqVars, fnVars, auxVars>>

\* requests without rotate: two keys, with and without a model, and one
\* request without an apiKey
ConcBodies ==
  {BootBody(TRUE, k, m, Undef, Undef, r, "undef") :
     k \in {Str(K1), Str(Padded(K2))}, m \in {Undef, Str(ModelName)},
     r \in {"undef", "false"}}
  \cup {BootBody(TRUE, Undef, Undef, Undef, Undef, "undef", "undef")}

\* lines 16-18: the handler starts and is suspended in `await req.json()`
BootArrive(c, body) ==
  /\ bootPc[c] = "idle"
  /\ bootPc' = [bootPc EXCEPT ![c] = "json"]
  /\ bootBodyOf' = [bootBodyOf EXCEPT ![c] = body]
  /\ UNCHANGED <<cfgVars, bootAnswer>>
  /\ UNCHANGED otherThanConc

\* the handler resumed with the existence test answered as it was before
\* the await, when no file existed
BootResumeStale(c, fs) ==
  /\ bootPc[c] = "json"
  /\ LET body == bootBodyOf[c]
         apiKey == FieldOf(body.apiKey)
     IN  /\ apiKey # << >>
         /\ fs = "ok"
         /\ cfgFile' = PayloadOf(apiKey, FieldOf(body.model), FieldOf(body.language),
                                 FieldOf(body.vectorStoreId), ToBoolean(body.verboseOpenAI))
         /\ bootResp' = BootResponse(200, TRUE, << >>, TRUE, FALSE, Last4(apiKey))
         /\ bootReq' = body
  /\ bootAnswer' = [bootAnswer EXCEPT ![c] = bootResp']
  /\ bootPc' = [bootPc EXCEPT ![c] = "done"]
  /\ UNCHANGED <<env, cfgResp, bootBodyOf>>
  /\ UNCHANGED otherThanConc

\* lines 18-83: req.json() settles and the rest of the handler, which has no
\* further await (mkdirSync, existsSync, readFileSync, writeFileSync), runs
\* to its response without another request running in between
BootResume(c, fs) ==
  /\ bootPc[c] = "json"
  /\ BootstrapKey(bootBodyOf[c], fs)
  /\ bootAnswer' = [bootAnswer EXCEPT ![c] = bootResp']
  /\ bootPc' = [bootPc EXCEPT ![c] = "done"]
  /\ UNCHANGED bootBodyOf

InitConc == InitQuiet /\ InitAux

NextConc ==
  \/ \E c \in BootClients, body \in ConcBodies : BootArrive(c, body)
  \/ \E c \in BootClients, fs \in FsOutcomes : BootResume(c, fs)

SpecConc == InitConc /\ [][NextConc]_vars

\* ----------- concurrent POST /api/analyze requests and the global console.log
\* console.log is the native function, << >>, or the wrapper installed by
\* request c, <<c>>.  A line is named by the request that logged it.
Native == << >>
WrapperOf(c) == <<c>>

otherThanLog == <<cfgVars, reqVars, fnVars, retryVars, legacyVars, clientVars, concVars>>

\* the flag read from the file although the resolver does not return it
VerboseModeFromFile == cfgFile.kind = "object" /\ cfgFile.VerboseOpenAI = "true"

\* lines 710-711: tempSettings?.verboseOpenAI
VerboseMode == getDefaultSettings.verboseOpenAI

\* lines 750-757: calling fn with a line; a wrapper pushes the line to the
\* debugLogs of its request and calls the function its request captured
RECURSIVE Deliver(_, _, _, _)
Deliver(fn, line, logs, captured) ==
  IF fn = Native THEN logs
  ELSE Deliver(captured[fn[1]], line, [logs EXCEPT ![fn[1]] = Append(@, line)], captured)

LogAnswer(status, has, lines) ==
  [status |-> status, verboseLogs |-> lines, hasVerboseLogs |-> has]

\* lines 1249-1252 (and 1242): console.log = originalConsoleLog, and the answer
Finish(c, answer) ==
  /\ consoleLog' = originalConsoleLog[c]
  /\ logAnswer' = [logAnswer EXCEPT ![c] = answer]
  /\ logPc' = [logPc EXCEPT ![c] = "done"]

\* lines 700-770: the handler captures console.log, wraps it in verbose mode,
\* logs, and is suspended in `await req.formData()`
LogStart(c) ==
  /\ logPc[c] = "idle"
  /\ originalConsoleLog' = [originalConsoleLog EXCEPT ![c] = consoleLog]
  /\ consoleLog' = IF VerboseMode THEN WrapperOf(c) ELSE consoleLog
  /\ debugLogs' = Deliver(consoleLog', c, debugLogs, originalConsoleLog')
  /\ logPc' = [logPc EXCEPT ![c] = "formData"]
  /\ UNCHANGED logAnswer
  /\ UNCHANGED otherThanLog

\* lines 770-793: the form settles; 400 without the files, 500 without a key
LogFormSettled(c, outcome) ==
  /\ logPc[c] = "formData"
  /\ IF outcome = "rejects"
     THEN Finish(c, LogAnswer(500, FALSE, << >>)) /\ UNCHANGED debugLogs
     ELSE IF outcome = "missing"
     THEN Finish(c, LogAnswer(400, FALSE, << >>)) /\ UNCHANGED debugLogs
     ELSE /\ debugLogs' = Deliver(consoleLog, c, debugLogs, originalConsoleLog)
          /\ IF ~IsTruthy(getDefaultSettings.apiKey)
             THEN Finish(c, LogAnswer(500, FALSE, << >>))
             ELSE /\ logPc' = [logPc EXCEPT ![c] = "import"]
                  /\ UNCHANGED <<consoleLog, logAnswer>>
  /\ UNCHANGED originalConsoleLog
  /\ UNCHANGED otherThanLog

AwaitAfter(at) ==
  CASE at = "import" -> "buffers"
    [] at = "buffers" -> "images"
    [] at = "images" -> "extraction"
    [] at = "extraction" -> "augmentation"
    [] OTHER -> "done"

\* lines 793-1239: an await settles; the handler logs and runs to its next
\* await, to the catch block, or to the ok:true response
LogStep(c, ok) ==
  /\ logPc[c] \in {"import", "buffers", "images", "extraction", "augmentation"}
  /\ IF ~ok
     THEN Finish(c, LogAnswer(500, FALSE, << >>)) /\ UNCHANGED debugLogs
     ELSE /\ debugLogs' = Deliver(consoleLog, c, debugLogs, originalConsoleLog)
          /\ IF logPc[c] = "augmentation"
             THEN Finish(c, LogAnswer(200, getDefaultSettings.verboseOpenAI,
                                      IF getDefaultSettings.verboseOpenAI
                                      THEN debugLogs'[c] ELSE << >>))
             ELSE /\ logPc' = [logPc EXCEPT ![c] = AwaitAfter(logPc[c])]
                  /\ UNCHANGED <<consoleLog, logAnswer>>
  /\ UNCHANGED originalConsoleLog
  /\ UNCHANGED otherThanLog

InitLog ==
  /\ env = EnvUnset
  /\ cfgFile \in {NoFile,
                  FileOf("object", Str(K1), Undef, Undef, Undef, "undef"),
                  FileOf("object", Str(K1), Undef, Undef, Undef, "true")}
  /\ bootReq = NoBody
  /\ bootResp = NoBootResponse
  /\ cfgResp = << >>
  /\ InitRequest
  /\ InitFn
  /\ InitAux

NextLog ==
  \/ \E c \in AnalyzeClients : LogStart(c)
  \/ \E c \in AnalyzeClients, outcome \in {"rejects", "missing", "ok"} : LogFormSettled(c, outcome)
  \/ \E c \in AnalyzeClients, ok \in BOOLEAN : LogStep(c, ok)

SpecLog == InitLog /\ [][NextLog]_vars

\* ------------------------------------- the client page (src/app/page.tsx)
otherThanClient == <<cfgVars, reqVars, fnVars, retryVars, legacyVars, logVars, concVars>>

\* line 194: hasAllFiles
hasAllFiles == files["neutral"] /\ files["closed_eyes"] /\ files["cotton_rolls"]

\* buttons that are disabled only for missing files
SubmitEnabledWhileBusy == hasAllFiles

\* lines 237-250: disabled={busy || !hasAllFiles} on both buttons
SubmitEnabled == ~busy /\ hasAllFiles

\* lines 78-81: onPick
onPick(stage, chosen) ==
  /\ files' = [files EXCEPT ![stage] = chosen]
  /\ errorState' = "null"
  /\ UNCHANGED <<busy, resultState, progressInterval, submitPc, runsStarted>>
  /\ UNCHANGED otherThanClient

\* lines 83-148: a click on an enabled button; onSubmit runs up to `await fetch`
onSubmit(mode) ==
  /\ SubmitEnabled
  /\ runsStarted < MaxRuns
  /\ runsStarted' = runsStarted + 1
  /\ busy' = TRUE
  /\ errorState' = "null"
  /\ resultState' = "null"
  /\ progressInterval' = [progressInterval EXCEPT ![runsStarted + 1] = "active"]
  /\ submitPc' = [submitPc EXCEPT ![runsStarted + 1] = "fetch"]
  /\ UNCHANGED files
  /\ UNCHANGED otherThanClient

\* lines 183-191: catch (setError) and finally (clearInterval, setBusy(false))
CatchAndFinally(r) ==
  /\ errorState' = "message"
  /\ progressInterval' = [progressInterval EXCEPT ![r] = "cleared"]
  /\ busy' = FALSE
  /\ submitPc' = [submitPc EXCEPT ![r] = "ended"]
  /\ UNCHANGED resultState

\* lines 143-148: fetch settles; then `await res.json()`
FetchSettles(r, ok) ==
  /\ submitPc[r] = "fetch"
  /\ IF ok
     THEN /\ submitPc' = [submitPc EXCEPT ![r] = "json"]
          /\ UNCHANGED <<busy, errorState, resultState, progressInterval>>
     ELSE CatchAndFinally(r)
  /\ UNCHANGED <<files, runsStarted>>
  /\ UNCHANGED otherThanClient

\* what the body of the response can be: not JSON, null, {ok:true,data},
\* {ok:true} without data, {ok:false,error}
Bodies == {"invalid", "null", "okData", "okNoData", "error"}

\* lines 148-182: res.json() settles; an ok:true body with data waits 1 s
JsonSettles(r, resOk, body) ==
  /\ submitPc[r] = "json"
  /\ IF resOk /\ body = "okData"
     THEN /\ submitPc' = [submitPc EXCEPT ![r] = "wait"]
          /\ UNCHANGED <<busy, errorState, resultState, progressInterval>>
     ELSE CatchAndFinally(r)
  /\ UNCHANGED <<files, runsStarted>>
  /\ UNCHANGED otherThanClient

\* lines 175-178, 187-191: the 1 s timer fires, setResult, then finally
ResultShown(r) ==
  /\ submitPc[r] = "wait"
  /\ resultState' = "data"
  /\ progressInterval' = [progressInterval EXCEPT ![r] = "cleared"]
  /\ busy' = FALSE
  /\ submitPc' = [submitPc EXCEPT ![r] = "ended"]
  /\ UNCHANGED <<files, errorState, runsStarted>>
  /\ UNCHANGED otherThanClient

InitClient == InitQuiet /\ InitAux

NextClient ==
  \/ \E stage \in FileStages, chosen \in BOOLEAN : onPick(stage, chosen)
  \/ \E mode \in {"normal", "comparison"} : onSubmit(mode)
  \/ \E r \in Runs, ok \in BOOLEAN : FetchSettles(r, ok)
  \/ \E r \in Runs, resOk \in BOOLEAN, body \in Bodies : JsonSettles(r, resOk, body)
  \/ \E r \in Runs : ResultShown(r)

SpecClient == InitClient /\ [][NextClient]_vars

\* ------------------------------------------------ the analyze pipeline
\* the environment and the config file do not change while the server runs
PipelineEnvs == {e \in Envs : e.MODEL = Undef /\ e.LANGUAGE = Undef /\ e.VECTOR_STORE_ID # Str(<< >>)}

Init ==
  /\ env \in PipelineEnvs
  /\ cfgFile \in InitFiles
  /\ bootReq = NoBody
  /\ bootResp = NoBootResponse
  /\ cfgResp = << >>
  /\ InitRequest
  /\ InitFn
  /\ InitAux

Next ==
  \/ \E f \in Forms : StartRequest(f)
  \/ FormDataSettled
  \/ \E ok \in BOOLEAN : ImportOpenAI(ok)
  \/ \E stage \in Stages, ok \in BOOLEAN : BufferFile(stage, ok)
  \/ \E stage \in Stages, doc \in Docs : ConvertSettled(stage, doc)
  \/ StartExtraction
  \/ \E reply \in ExtractionReplies : ExtractionReturns(reply)
  \/ \E error \in ProviderErrors : ExtractionThrows(error)
  \/ \E reply \in AugmentationReplies : AugmentationReturns(reply)
  \/ \E error \in ProviderErrors : AugmentationThrows(error)

Spec == Init /\ [][Next]_vars

\* ---------------------------------------------------------------- claims
InCalls(x) == \E i \in 1..Len(calls) : calls[i] = x
AllThreeFiles == form.parsed /\ form.neutral /\ form.closed_eyes /\ form.cotton_rolls
EndsWith(s, t) == Len(t) <= Len(s) /\ SubSeq(s, Len(s) - Len(t) + 1, Len(s)) = t
BeginsWith(msg, fragment) == Len(msg) > 0 /\ msg[1] = fragment
IsErrorBody(r) == r.keys = {"ok", "error"} /\ ~r.ok /\ r.data = NoData
DataKeys == {"mode", "extractionReportText", "extractionReportJson", "augmentedReportText", "debug"}

\* C1: the interpretation call is issued only after the extraction call has
\* returned non-empty text that has been split and cleaned; it never starts
\* before or during the extraction call, and its input embeds the cleaned JSON text.
C1_InterpretationAfterExtraction ==
  /\ \A i \in 1..Len(calls) :
       calls[i] = "augmentation:start" =>
         /\ \E j \in 1..(i - 1) : calls[j] = "extraction:end"
         /\ extractionText # << >>
         /\ extractionJsonText = cleanExtractedJson(SplitExtraction(extractionText).jsonText)
         /\ Len(augmentationInput) > Len(extractionJsonText)
         /\ EndsWith(augmentationInput, extractionJsonText)
  /\ pc = "extraction" => ~InCalls("augmentation:start")

\* C1 witness: call #2 is in flight on a fenced reply whose diagnostics were
\* split off and whose JSON was re-serialised
C1_Witness ==
  /\ pc = "augmentation"
  /\ extractionDiagnostics # << >>
  /\ extractionJsonText # extractionText
  /\ tryParseJSON(extractionJsonText) # JNull

\* C2: ok:true is answered only after both model calls returned and carries
\* the five data fields together; every other answer holds ok:false and error only.
C2_NoPartialResult ==
  /\ pc = "done" => response.status # 0
  /\ response.ok =>
       /\ response.status = 200
       /\ InCalls("extraction:end") /\ InCalls("augmentation:end")
       /\ response.keys = {"ok", "data"}
       /\ response.data.keys = DataKeys
  /\ (response.status # 0 /\ ~response.ok) => IsErrorBody(response)

\* C2 witness: the second call failed after the first had succeeded
C2_Witness ==
  /\ pc = "done"
  /\ InCalls("augmentation:start") /\ ~InCalls("augmentation:end")
  /\ extractionJsonText # << >>
  /\ response.status = 500

\* some start marker is followed by some end marker with well-formed JSON between
HasFencedJson(text) ==
  \E i \in 1..Len(text), j \in 1..Len(text) :
    /\ i < j /\ text[i] = fenceStart /\ text[j] = fenceEnd
    /\ ~JSONparse(SubSeq(text, i + 1, j - 1)).threw

\* the text between the first start marker and the last end marker is
\* well-formed JSON other than null
HasFencedNonNullJson(text) ==
  \E i \in 1..Len(text), j \in 1..Len(text) :
    /\ i < j /\ text[i] = fenceStart /\ text[j] = fenceEnd
    /\ \A m \in 1..(i - 1) : text[m] # fenceStart
    /\ \A m \in (j + 1)..Len(text) : text[m] # fenceEnd
    /\ ~JSONparse(SubSeq(text, i + 1, j - 1)).threw
    /\ JSONparse(SubSeq(text, i + 1, j - 1)).val.t # "null"

C3_Answered(fenced) ==
  (/\ pc = "done" /\ AllThreeFiles /\ IsTruthy(settings.apiKey)
   /\ InCalls("extraction:end") /\ fenced
   /\ InCalls("augmentation:end") /\ augmentedText # << >>)
  => /\ response.status = 200 /\ response.ok
     /\ response.data.extractionReportJson # JNull
     /\ Len(response.data.augmentedReportText) > 0

\* C3 as stated: three files, a key, well-formed JSON between the markers and a
\* non-empty interpretation give 200, ok:true, a non-null extractionReportJson
\* and a non-empty augmentedReportText.
C3_Original == C3_Answered(HasFencedJson(extractionText))

\* C3 amended: the same, when the text between the first start marker and the
\* last end marker is well-formed JSON other than null.
C3_Amended == C3_Answered(HasFencedNonNullJson(extractionText))

\* C3 witness: a fenced object with diagnostics around it was answered with 200
C3_Witness ==
  /\ pc = "done" /\ response.status = 200
  /\ HasFencedNonNullJson(extractionText)
  /\ extractionDiagnostics # << >>
  /\ response.data.extractionReportJson.t = "obj"
  /\ response.data.augmentedReportText # << >>

SomeFileMissing == form.parsed /\ ~(form.neutral /\ form.closed_eyes /\ form.cotton_rolls)

\* the environment and the file give no key
NoKeyObtainable ==
  /\ env.OPENAI_API_KEY.t = "undef" \/ Trim(env.OPENAI_API_KEY.s) = << >>
  /\ \/ cfgFile.kind \in {"absent", "unreadable", "malformed", "null"}
     \/ cfgFile.ApiKey.t # "str"
     \/ Trim(cfgFile.ApiKey.s) = << >>

\* C4: a form lacking one of the three files is answered 400, ok:false, with a
\* message beginning "Missing PDF(s)", with or without an API key, and without
\* any PDF conversion or model call.
C4_MissingPdf ==
  SomeFileMissing =>
    /\ calls = << >>
    /\ pc \in {"formData", "done"}
    /\ pc = "done" => /\ response.status = 400
                      /\ IsErrorBody(response)
                      /\ BeginsWith(response.error, "Missing PDF(s)")

\* C4 witness: a file is missing and no key is configured, and the answer is 400
C4_Witness ==
  /\ pc = "done" /\ SomeFileMissing /\ NoKeyObtainable
  /\ form.neutral /\ form.closed_eyes
  /\ response.status = 400

\* C5: with no key obtainable from any source the resolver does not throw and a
\* request with the three files is answered 500, ok:false, "API key not
\* configured", without any model call.
C5_NoApiKey ==
  (AllThreeFiles /\ NoKeyObtainable) =>
    /\ calls = << >>
    /\ thrown = NoError
    /\ pc \in {"formData", "done"}
    /\ pc = "done" => /\ response.status = 500
                      /\ IsErrorBody(response)
                      /\ response.error = <<"API key not configured">>

\* C5 witness: a malformed config file and a blank environment variable
C5_Witness ==
  /\ pc = "done" /\ AllThreeFiles
  /\ cfgFile.kind = "malformed" /\ env.OPENAI_API_KEY = Str(Blank)
  /\ response.status = 500

\* the extraction reply carries no text
ReplyHasNoText ==
  /\ InCalls("extraction:end")
  /\ extractionResp.output_text.t = "undef" \/ extractionResp.output_text.s = << >>
  /\ extractionResp.content_text.t = "undef" \/ extractionResp.content_text.s = << >>

\* C6: an extraction reply without text fails the request with 500, ok:false
\* and an "Empty extraction response" error, returns no data, and the
\* interpretation call is never made.
C6_EmptyExtraction ==
  ReplyHasNoText =>
    /\ pc = "done"
    /\ response.status = 500
    /\ IsErrorBody(response)
    /\ BeginsWith(response.error, "Empty extraction response")
    /\ ~InCalls("augmentation:start")

\* C6 witness: the reply had an empty output_text and no content text
C6_Witness ==
  /\ ReplyHasNoText
  /\ extractionResp = ReplyOf(Str(<< >>), Undef)
  /\ pc = "done"

\* C7: every exception raised in the pipeline is answered 500 with
\* {ok:false, error: the exception's message}; the handler always answers.
C7_ExceptionsAnswered ==
  /\ thrown # NoError =>
       /\ pc = "done"
       /\ response.status = 500
       /\ IsErrorBody(response)
       /\ response.error = thrown.message
  /\ pc = "done" => response.status \in {200, 400, 500}

\* C7 witness: the provider's rate-limit error on the second call is passed through
C7_Witness ==
  /\ thrown.message = <<"429 Rate limit reached for requests">>
  /\ InCalls("augmentation:start")
  /\ response.error = <<"429 Rate limit reached for requests">>

\* C8: once the config file exists, a request without rotate never changes the
\* stored LLMConfig.ApiKey; the stored key changes only with rotate set.
C8_WriteOnceKey ==
  [][(cfgFile.kind # "absent" /\ bootReq'.rotate # "true")
       => (cfgFile'.kind = cfgFile.kind /\ cfgFile'.ApiKey = cfgFile.ApiKey)]_vars

\* C8 witness: a request with another key and a model took the merge path
C8_Witness ==
  /\ bootResp.alreadyConfigured
  /\ bootReq.rotate = "false"
  /\ bootReq.model = Str(ModelName)
  /\ cfgFile.kind = "object" /\ cfgFile.Model = Str(ModelName)
  /\ cfgFile.ApiKey.t = "str" /\ bootReq.apiKey.t = "str"
  /\ Trim(bootReq.apiKey.s) # Trim(cfgFile.ApiKey.s)

\* the key the precedence rules give
ExpectedApiKey ==
  IF env.OPENAI_API_KEY.t = "str" /\ Trim(env.OPENAI_API_KEY.s) # << >>
  THEN Str(Trim(env.OPENAI_API_KEY.s))
  ELSE IF cfgFile.kind = "object" /\ cfgFile.ApiKey.t = "str" /\ Trim(cfgFile.ApiKey.s) # << >>
  THEN Str(Trim(cfgFile.ApiKey.s))
  ELSE Undef

\* C9: the key a request resolves is the trimmed environment variable when
\* that is non-blank, otherwise the trimmed non-blank LLMConfig.ApiKey string of
\* the config file, otherwise undefined.
C9_KeyPrecedence ==
  [][(pc = "formData" /\ pc' # "formData") => settings'.apiKey = ExpectedApiKey]_vars

\* C9 witness: the environment key was used although the file holds another key
C9_Witness ==
  /\ pc = "import"
  /\ settings.apiKey = Str(EnvKey)
  /\ cfgFile.kind = "object" /\ cfgFile.ApiKey.t = "str" /\ Trim(cfgFile.ApiKey.s) = K1

\* a non-blank environment variable
EnvGiven(x) == x.t = "str" /\ Trim(x.s) # << >>
\* a value stored in the config file
FileGiven(x) == cfgFile.kind = "object" /\ x.t = "str" /\ x.s # << >>
\* environment, then file, then some default
Precedence(got, envValue, fileValue) ==
  IF EnvGiven(envValue) THEN got \in {envValue, TrimOpt(envValue)}
  ELSE IF FileGiven(fileValue) THEN got = fileValue
  ELSE got.t = "str" /\ got.s # << >>

\* C10: model, language and vector-store id each come from the environment
\* variable when set, otherwise from the config file when present, otherwise
\* from a hardcoded default.
C10_SettingsPrecedence ==
  cfgResp # << >> =>
    /\ Precedence(cfgResp[1].model, env.MODEL, cfgFile.Model)
    /\ Precedence(cfgResp[1].language, env.LANGUAGE, cfgFile.Language)
    /\ Precedence(cfgResp[1].vectorStoreId, env.VECTOR_STORE_ID, cfgFile.VectorStoreId)
\* the candidate the split hands to the cleaner
Candidate == SplitExtraction(extractionText).jsonText
Succeeded == pc = "done" /\ response.status = 200

NonWs(s) == SelectSeq(s, LAMBDA tok : tok # WS)
Count(s, tok) == Cardinality({i \in 1..Len(s) : s[i] = tok})
\* the text was split and the handler went on
WasSplit == extractionText # << >> /\ pc \in {"augmentation", "done"}
\* one start marker, then one end marker
FencedOnce(text) ==
  /\ Count(text, fenceStart) = 1
  /\ Count(text, fenceEnd) = 1
  /\ IndexOf(text, fenceStart) < IndexOf(text, fenceEnd)
TextBefore(text) == SubSeq(text, 1, IndexOf(text, fenceStart))
TextBetween(text) == SubSeq(text, IndexOf(text, fenceStart) + 2, IndexOf(text, fenceEnd))
TextAfter(text) == SubSeq(text, IndexOf(text, fenceEnd) + 2, Len(text))

\* C12: with the start marker before the end marker, the JSON candidate is
\* the trimmed text between the markers and the diagnostics are the text
\* outside them: the text before the start marker and the text after the end
\* marker.
C12_FenceSplit ==
  (WasSplit /\ FencedOnce(extractionText)) =>
    /\ Candidate = Trim(TextBetween(extractionText))
    /\ NonWs(extractionDiagnostics)
         = NonWs(TextBefore(extractionText)) \o NonWs(TextAfter(extractionText))

Unfenced(text) == IndexOf(text, fenceStart) = -1 /\ IndexOf(text, fenceEnd) = -1
\* the text ends with a well-formed JSON object that has a "patient" key
EndsWithPatientObject(text) ==
  \E i \in 1..Len(text) :
    LET r == JSONparse(SubSeq(text, i, Len(text)))
    IN  ~r.threw /\ r.val.t = "obj" /\ HasKey(r.val, "patient")

\* C13: for an extraction text without fence markers that ends with a
\* well-formed JSON object containing a "patient" key, whatever free text
\* precedes it, the fallback isolates valid JSON: extractionReportJson is
\* non-null.
C13_FallbackIsolatesJson ==
  (Succeeded /\ Unfenced(extractionText) /\ EndsWithPatientObject(extractionText)) =>
    /\ ~JSONparse(Candidate).threw
    /\ response.data.extractionReportJson # JNull

PermittedKeys == <<"patient", "tests", "comparisons">>
CandidateValue == JSONparse(Candidate).val
CandidateIsObject == ~JSONparse(Candidate).threw /\ CandidateValue.t = "obj"
CleanedValue == JSONparse(extractionJsonText).val
HasPermittedKeysOnly ==
  /\ ~JSONparse(extractionJsonText).threw
  /\ CleanedValue.t = "obj"
  /\ CleanedValue.k = PermittedKeys
CleaningIsIdempotent == cleanExtractedJson(extractionJsonText) = extractionJsonText

\* C14 as stated: when the candidate parses as an object, the re-serialised
\* text has exactly the keys patient, tests, comparisons, the values of these
\* keys are those of the candidate, and cleaning the cleaned text changes
\* nothing.
C14_Original ==
  (WasSplit /\ CandidateIsObject) =>
    /\ HasPermittedKeysOnly
    /\ \A i \in 1..3 :
         HasKey(CandidateValue, PermittedKeys[i]) =>
           CleanedValue.v[i] = GetKey(CandidateValue, PermittedKeys[i])
    /\ CleaningIsIdempotent

\* C14 amended: as above, but a permitted key keeps its value only when that
\* value is truthy; an absent key and a falsy value (null, 0) both become the
\* empty object.
C14_Amended ==
  (WasSplit /\ CandidateIsObject) =>
    /\ HasPermittedKeysOnly
    /\ \A i \in 1..3 :
         CleanedValue.v[i] =
           IF /\ HasKey(CandidateValue, PermittedKeys[i])
              /\ GetKey(CandidateValue, PermittedKeys[i]).t \notin {"null", "zero"}
           THEN GetKey(CandidateValue, PermittedKeys[i])
           ELSE EmptyObj
    /\ CleaningIsIdempotent

C14_Witness ==
  /\ WasSplit
  /\ CandidateIsObject
  /\ HasKey(CandidateValue, "extra")
  /\ HasKey(CandidateValue, "patient")
  /\ CleanedValue.v[1] = GetKey(CandidateValue, "patient")
  /\ ~HasKey(CandidateValue, "tests")
  /\ ~HasKey(CleanedValue, "extra")

\* where a stage keeps its load pair: page1.loads if there is one, else page1
LoadsOf(t) ==
  IF HasKey(Prop(t, "page1"), "loads") THEN Prop(Prop(t, "page1"), "loads")
  ELSE Prop(t, "page1")
LeftOf(t) == Prop(LoadsOf(t), "left_load_pct")
RightOf(t) == Prop(LoadsOf(t), "right_load_pct")
BothNumbers(t) == IsNumber(LeftOf(t)) /\ IsNumber(RightOf(t))
SumOf(t) == NumValue(LeftOf(t)) + NumValue(RightOf(t))
SumOutside(t) == BothNumbers(t) /\ (SumOf(t) < 98 * 100 \/ SumOf(t) > 102 * 100)
StageOf(payload, key) == Prop(Prop(payload, "tests"), key)

\* C15: after normalizeExtraction, every stage whose left and right load
\* percentages are numbers summing outside [98,102] has both fields null,
\* flat under page1 or under page1.loads; every other stage keeps its pair;
\* and normalising again changes nothing.
C15_Normalization ==
  normalizeCalls >= 1 =>
    /\ \A key \in Stages :
         IF SumOutside(StageOf(ex, key))
         THEN /\ LeftOf(StageOf(normalized, key)) = JNull
              /\ RightOf(StageOf(normalized, key)) = JNull
         ELSE /\ LeftOf(StageOf(normalized, key)) = LeftOf(StageOf(ex, key))
              /\ RightOf(StageOf(normalized, key)) = RightOf(StageOf(ex, key))
    /\ normalizeExtraction(normalized) = normalized

ReportJson == response.data.extractionReportJson

\* C16: the extraction payload is normalised before it is passed to the
\* interpretation call and before it is returned: in no stage of it are the
\* left and right load percentages both numbers with a sum outside [98,102].
C16_ReturnedPayloadNormalised ==
  /\ WasSplit => \A key \in Stages : ~SumOutside(StageOf(tryParseJSON(extractionJsonText), key))
  /\ Succeeded => \A key \in Stages : ~SumOutside(StageOf(ReportJson, key))

\* the value of the modelled page-1 global metric of a stage, and the
\* comparison entry from -> to of it
MetricValue(payload, key) ==
  Prop(Prop(Prop(Prop(StageOf(payload, key), "page1"), "global_metrics"), "area_mm2"), "value")
ComparisonOf(payload, name, metric) == Prop(Prop(Prop(payload, "comparisons"), name), metric)
\* round(b / a, 2) of two values in hundredths, in hundredths
RoundedRatio(a, b) == (2 * 100 * b + a) \div (2 * a)
RatioHolds(payload, name, from, to) ==
  LET pair == ComparisonOf(payload, name, "area_mm2")
      a == MetricValue(payload, from)
      b == MetricValue(payload, to)
  IN  pair.t = "obj" =>
        IF IsNumber(a) /\ IsNumber(b)
        THEN NumValue(a) > 0 =>
               /\ IsNumber(Prop(pair, "ratio"))
               /\ NumValue(Prop(pair, "ratio")) = RoundedRatio(NumValue(a), NumValue(b))
        ELSE Prop(pair, "ratio") = JNull

\* C17: in every returned extraction payload a ratio-pair of comparisons has
\* ratio = round(B / A, 2) (C / B for the cotton comparison) when both inputs
\* are numbers, and ratio null when either input is null.
C17_RatioMatchesInputs ==
  Succeeded =>
    /\ RatioHolds(ReportJson, "romberg_b_over_a", "A", "B")
    /\ RatioHolds(ReportJson, "cotton_c_over_b", "B", "C")

\* C18: in every returned extraction payload the angular-deviation entries
\* have no ratio and no pct_change key, and have delta_deg and sign_flip.
C18_AngleEntries ==
  Succeeded =>
    \A name \in {"romberg_b_over_a", "cotton_c_over_b"} :
      LET entry == ComparisonOf(ReportJson, name, "ellipse_ap_deviation_deg")
      IN  entry # JUndef =>
            /\ ~HasKey(entry, "ratio")
            /\ ~HasKey(entry, "pct_change")
            /\ HasKey(entry, "delta_deg")
            /\ HasKey(entry, "sign_flip")

Ascending(list) == \A i \in 1..(Len(list) - 1) : list[i] < list[i + 1]
Elements(list) == {list[i] : i \in 1..Len(list)}
ConversionFails(doc) == ~doc.loads \/ doc.badPage \in 1..doc.pages

\* C19: pdfToImages returns one image for each requested page the document
\* has, in ascending page order whatever the order of the request, and nothing
\* for the other pages; if loading or rendering any page fails it returns the
\* empty list, never a partial one; and the handler that received an empty
\* list has raised nothing and goes on to the extraction call.
C19_PdfToImages ==
  /\ pdfDoc # NoDoc =>
       IF ConversionFails(pdfDoc) THEN pdfImages = << >>
       ELSE /\ Ascending(pdfImages)
            /\ Elements(pdfImages) = Elements(pagesToExtract) \cap (1..pdfDoc.pages)
  /\ pc = "images" =>
       /\ thrown = NoError /\ response = NoResponse
       /\ (\A st \in Stages : conv[st] = "done") => ENABLED StartExtraction
  /\ pc = "extraction" => thrown = NoError /\ InCalls("extraction:start")

C19_Witness ==
  /\ pdfDoc.loads /\ pdfDoc.badPage = 0 /\ pdfDoc.pages = 7
  /\ pagesToExtract = <<8, 5, 4, 3, 2, 1>>
  /\ pdfImages = <<1, 2, 3, 4, 5>>

PartsOf(stage) == SelectSeq(extractionInput, LAMBDA part : part.stage = stage)

\* C20: every page image of the extraction request is tagged with the stage
\* it belongs to and with the number of the page it was rendered from,
\* whatever the page count of the PDF.
C20_ImageTags ==
  pc = "extraction" =>
    /\ Len(extractionInput) = Len(images["A"]) + Len(images["B"]) + Len(images["C"])
    /\ \A i \in 1..Len(extractionInput) : extractionInput[i].page = extractionInput[i].image
    /\ \A st \in Stages :
         [i \in 1..Len(PartsOf(st)) |-> PartsOf(st)[i].page] = images[st]

C20_Witness ==
  /\ pc = "extraction"
  /\ images["A"] = <<1, 2, 3, 4, 5, 8>>
  /\ images["B"] = <<1, 2, 3>>
  /\ images["C"] = << >>
  /\ \E i \in 1..Len(extractionInput) :
       extractionInput[i].stage = "A" /\ extractionInput[i].page = 8

Started(x) == InCalls(x)
Buffering == pc \in {"bufA", "bufB", "bufC"}

\* C21: while a PDF is being buffered all three bufferings have been started
\* (none waits for another stage's buffering), while pages are being converted
\* all three conversions have been started, and the extraction call is issued
\* only after all three conversions have settled, in every completion order.
C21_FanOutFanIn ==
  /\ Buffering => \A st \in Stages : Started("arrayBuffer:" \o st)
  /\ pc = "images" => \A st \in Stages : Started("pdfToImages:" \o st)
  /\ Started("extraction:start") => \A st \in Stages : conv[st] = "done"

\* C24: each model is invoked at most once per request and never again after
\* an error: a rate-limit or other provider error from either call ends the
\* request with a 500 answer without a second attempt.
C24_NoRetry ==
  /\ Count(calls, "extraction:start") <= 1
  /\ Count(calls, "augmentation:start") <= 1
  /\ thrown \in ProviderErrors =>
       /\ pc = "done"
       /\ response.status = 500 /\ ~response.ok
       /\ calls[Len(calls)] \in {"extraction:start", "augmentation:start"}
       /\ Count(calls, calls[Len(calls)]) = 1

C24_Witness ==
  /\ thrown = ErrorOf(MsgRateLimit)
  /\ calls[Len(calls)] = "extraction:start"
  /\ Count(calls, "extraction:start") = 1
  /\ pc = "done" /\ response.status = 500

\* C27: on the already-configured path (file present, rotate not set) the
\* stored ApiKey is unchanged and each of Model, Language, VectorStoreId and
\* VerboseOpenAI that the request does not supply keeps its stored value.
C27_MergeFrame ==
  [][(cfgFile.kind # "absent" /\ bootReq'.rotate # "true" /\ bootResp'.alreadyConfigured)
       => /\ cfgFile'.kind = cfgFile.kind
          /\ cfgFile'.ApiKey = cfgFile.ApiKey
          /\ FieldOf(bootReq'.model) = << >> => cfgFile'.Model = cfgFile.Model
          /\ FieldOf(bootReq'.language) = << >> => cfgFile'.Language = cfgFile.Language
          /\ FieldOf(bootReq'.vectorStoreId) = << >>
               => cfgFile'.VectorStoreId = cfgFile.VectorStoreId
          /\ bootReq'.verboseOpenAI = "undef"
               => cfgFile'.VerboseOpenAI = cfgFile.VerboseOpenAI]_vars

Timings == {"prepareMs", "extractionMs", "augmentationMs", "totalMs"}
VerboseConfigured == cfgFile.kind = "object" /\ cfgFile.VerboseOpenAI = "true"

\* C23: every ok:true response carries the four timings in debug, and debug
\* contains verboseLogs exactly when the verbose flag is set in the
\* configuration.
C23_DebugContents ==
  Succeeded =>
    /\ Timings \subseteq response.data.debugKeys
    /\ "verboseLogs" \in response.data.debugKeys <=> VerboseConfigured

\* what the claim calls a rate-limit error
RateLimited(err) ==
  /\ err.defined
  /\ \/ err.status = 429
     \/ \E i \in 1..Len(err.message) :
          err.message[i] \in {"Rate limit", "rate limit", "RATE LIMIT", "Rate Limit"}
     \/ err.errorType = "rate_limit_exceeded"

C25_Bounded ==
  /\ fnCalls <= maxAttempts
  /\ retryPc = "wait" =>
       /\ RateLimited(lastErr)
       /\ delay >= 250 * Pow2(attempt)
       /\ delay < 250 * Pow2(attempt) + 250
       /\ fnCalls = attempt + 1
  /\ retryPc = "returned" =>
       /\ retryOut.kind = "value"
       /\ fnCalls = attempt + 1
  /\ retryPc = "thrown" =>
       /\ retryOut = OutcomeOf("error", lastErr)
       /\ IF RateLimited(lastErr)
          THEN attempt = maxAttempts /\ fnCalls = maxAttempts
          ELSE attempt < maxAttempts => fnCalls = attempt + 1

\* C25: withRetry terminates after at most maxAttempts calls of fn; it
\* returns the first success, rethrows an error that is no rate-limit error
\* at once, throws the last error after maxAttempts rate-limit errors, and
\* the wait after failed attempt k is in [250 * 2^k, 250 * 2^k + 250) ms.
C25_WithRetry ==
  /\ []C25_Bounded
  /\ <>(retryPc \in {"returned", "thrown"})

C25_Witness ==
  /\ retryPc = "thrown"
  /\ maxAttempts = 3 /\ attempt = 3 /\ fnCalls = 3
  /\ lastErr = ErrOf(500, <<"RATE LIMIT", " reached for requests">>, "")
  /\ delay = 250 * 4 + 249

\* C26: in the legacy polling route, once the three PDFs are uploaded, every
\* way the request ends has asked the provider to delete all three uploaded
\* files by the time the event stream is closed.
C26_CleanupOnEveryExit ==
  (streamClosed /\ uploaded = AllUploaded) => deleted = AllUploaded

Saved == {c \in BootClients : bootPc[c] = "done" /\ bootAnswer[c].saved}
Answered200 == {c \in BootClients : bootPc[c] = "done" /\ bootAnswer[c].status = 200}

\* C28: of the concurrent bootstrap requests without rotate that arrive while
\* no config file exists, exactly one writes the key and answers saved:true,
\* every other accepted request answers alreadyConfigured:true, and the
\* stored key is the key of the request that answered saved:true.
C28_SingleWriter ==
  /\ Cardinality(Saved) <= 1
  /\ \A c \in Answered200 \ Saved :
       bootAnswer[c].alreadyConfigured /\ Cardinality(Saved) = 1
  /\ \A c \in Saved :
       /\ cfgFile.kind = "object"
       /\ cfgFile.ApiKey = Str(Trim(bootBodyOf[c].apiKey.s))
  /\ Saved = {} => cfgFile = NoFile

C28_Witness ==
  /\ \A c \in BootClients : bootPc[c] = "done" /\ bootAnswer[c].status = 200
  /\ \E c \in BootClients :
       /\ Saved = {c}
       /\ \A d \in BootClients \ {c} :
            /\ bootAnswer[d].alreadyConfigured
            /\ Trim(bootBodyOf[d].apiKey.s) # Trim(bootBodyOf[c].apiKey.s)

InFlight(c) == logPc[c] \notin {"idle", "done"}
OwnLinesOnly(c, lines) == \A i \in 1..Len(lines) : lines[i] = c

AllFilesChosen == \A st \in FileStages : files[st]
RunEnds(r) == submitPc[r] # "ended" /\ submitPc'[r] = "ended"

\* C30: the submit buttons are enabled only while busy is false and all three
\* files are chosen, and every run of onSubmit ends with busy false, its
\* progress interval cleared and exactly one of result and error non-null.
C30_SubmitLifecycle ==
  /\ []((ENABLED onSubmit("normal") \/ ENABLED onSubmit("comparison"))
          => (~busy /\ AllFilesChosen))
  /\ [][\A r \in Runs :
          RunEnds(r) => /\ busy' = FALSE
                        /\ progressInterval'[r] = "cleared"
                        /\ (resultState' # "null") # (errorState' # "null")]_vars

C30_Witness ==
  /\ submitPc[1] = "ended" /\ submitPc[2] = "ended" /\ submitPc[3] = "idle"
  /\ ~busy
  /\ progressInterval[1] = "cleared" /\ progressInterval[2] = "cleared"
  /\ resultState = "data" /\ errorState = "null"

====
